---- MODULE Spec2Model ----
(***************************************************************************)
(* Plan orchestration engine of PROJECT_CODEMATE                           *)
(* (src/src/pipeline/execution_engine.py and its collaborators).           *)
(*                                                                         *)
(* Python values are modelled as tagged records so that values of          *)
(* different Python types can meet in one field:                           *)
(*   None            [t |-> "none"]                                        *)
(*   str             [t |-> "str", s |-> <<characters>>]                   *)
(*   other objects   [t |-> "obj", o |-> "rows"]   (a list of rows, ...)   *)
(*   dict (result)   [t |-> "map", m |-> [success |-> TRUE, ...]]          *)
(* Strings that the engine inspects (parameter values, context keys) are   *)
(* sequences of one-character strings, so that startswith, endswith,       *)
(* strip, split, the substring test and the ordering used by max() are     *)
(* computed as Python computes them.                                       *)
(***************************************************************************)
EXTENDS Integers, Sequences, FiniteSets, TLC

(***************************************************************************)
(* Bounds of the model.                                                    *)
(***************************************************************************)
\* longest plan (number of call entries) submitted under Spec
MaxPlanLen == 3
\* longest plan submitted under SpecLong
MaxLongLen == 12
\* number of engine invocations, one after the other, under SpecRerun
MaxRuns == 3
\* number of register calls after the registration phase, under SpecRegister
MaxRegistrations == 4
\* longest call list of a plan the planner produces under SpecPipeline
MaxQueryLen == 2
\* longest call list given to the validator under SpecValidate
MaxValidateLen == 3
\* longest call list handed to the repairer
MaxRepairLen == 2
\* most queries a manager plans between its start and the end of a behaviour
MaxQueries == 2
\* longest batch of queries
MaxBatchLen == 2

(***************************************************************************)
(* Python str operations on sequences of characters.                       *)
(***************************************************************************)
\* the characters the model uses, in increasing code point order
Alphabet == <<" ", ".", "0", "1", "2", "3", "4", "5", "6", "7", "8", "9", "_",
              "a", "b", "c", "d", "e", "f", "g", "h", "i", "j", "k", "l", "m",
              "n", "o", "p", "q", "r", "s", "t", "u", "v", "w", "x", "y", "z",
              "{", "}">>

Ord(c) == CHOOSE k \in DOMAIN Alphabet : Alphabet[k] = c

\* a < b for Python strings: lexicographic by code point
RECURSIVE StrLess(_, _)
StrLess(a, b) ==
    IF a = <<>> THEN b # <<>>
    ELSE IF b = <<>> THEN FALSE
    ELSE IF a[1] = b[1] THEN StrLess(Tail(a), Tail(b))
    ELSE Ord(a[1]) < Ord(b[1])

\* max(keys) over a non-empty set of strings
StrMax(S) == CHOOSE m \in S : \A x \in S : x = m \/ StrLess(x, m)

\* s.startswith(p)
StartsWith(s, p) == Len(s) >= Len(p) /\ SubSeq(s, 1, Len(p)) = p

\* s.endswith(p)
EndsWith(s, p) == Len(s) >= Len(p) /\ SubSeq(s, Len(s) - Len(p) + 1, Len(s)) = p

\* sub in s
Contains(s, sub) ==
    \E k \in 0..(Len(s) - Len(sub)) : SubSeq(s, k + 1, k + Len(sub)) = sub

\* s.strip()
RECURSIVE Strip(_)
Strip(s) ==
    IF s = <<>> THEN s
    ELSE IF s[1] = " " THEN Strip(Tail(s))
    ELSE IF s[Len(s)] = " " THEN Strip(SubSeq(s, 1, Len(s) - 1))
    ELSE s

\* s.split('.')
RECURSIVE Split(_)
Split(s) ==
    IF \A k \in DOMAIN s : s[k] # "." THEN <<s>>
    ELSE LET k == CHOOSE j \in DOMAIN s :
                      s[j] = "." /\ \A h \in 1..(j - 1) : s[h] # "."
         IN  <<SubSeq(s, 1, k - 1)>> \o Split(SubSeq(s, k + 1, Len(s)))

DigitChars == <<"0", "1", "2", "3", "4", "5", "6", "7", "8", "9">>

\* str(n) for n >= 0
RECURSIVE IntToStr(_)
IntToStr(n) ==
    IF n < 10 THEN <<DigitChars[n + 1]>>
    ELSE IntToStr(n \div 10) \o <<DigitChars[(n % 10) + 1]>>

S_result_ == <<"r", "e", "s", "u", "l", "t", "_">>
S_output_from_previous ==
    <<"o", "u", "t", "p", "u", "t", "_", "f", "r", "o", "m", "_",
      "p", "r", "e", "v", "i", "o", "u", "s">>

\* f"result_{i}"
\* mutant of ContextKey: every result is stored under result_0
MutContextKey(i) == S_result_ \o IntToStr(0)

\* f"result_{i}"
ContextKey(i) == S_result_ \o IntToStr(i)

(***************************************************************************)
(* Python values.                                                          *)
(***************************************************************************)
None == [t |-> "none"]
Str(s) == [t |-> "str", s |-> s]
Obj(o) == [t |-> "obj", o |-> o]
Map(m) == [t |-> "map", m |-> m]
Bool(b) == [t |-> "bool", b |-> b]
Int_(n) == [t |-> "int", n |-> n]
Text(x) == [t |-> "text", x |-> x]
Name(n) == [t |-> "name", n |-> n]

IsStr(v) == v.t = "str"
IsMap(v) == v.t = "map"

\* the empty dict
EmptyDict == <<>>

\* spelling of the keys of a result mapping
Spelling == [
    success |-> <<"s", "u", "c", "c", "e", "s", "s">>,
    data |-> <<"d", "a", "t", "a">>,
    error |-> <<"e", "r", "r", "o", "r">>,
    function_name |-> <<"f", "u", "n", "c", "t", "i", "o", "n", "_", "n", "a", "m", "e">>,
    call_index |-> <<"c", "a", "l", "l", "_", "i", "n", "d", "e", "x">>,
    description |-> <<"d", "e", "s", "c", "r", "i", "p", "t", "i", "o", "n">>,
    parameters_used |-> <<"p", "a", "r", "a", "m", "e", "t", "e", "r", "s", "_", "u", "s", "e", "d">>,
    simulated |-> <<"s", "i", "m", "u", "l", "a", "t", "e", "d">>,
    message |-> <<"m", "e", "s", "s", "a", "g", "e">>,
    file_path |-> <<"f", "i", "l", "e", "_", "p", "a", "t", "h">>,
    column |-> <<"c", "o", "l", "u", "m", "n">>]

\* the value stored under field f of result mapping r, as a Python value
FieldValue(r, f) ==
    CASE f = "data" -> r.data
      [] f = "function_name" -> r.function_name
      [] f \in {"success", "simulated"} -> Bool(r[f])
      [] f = "call_index" -> Int_(r.call_index)
      [] f = "parameters_used" -> [t |-> "dict", d |-> r.parameters_used]
      [] OTHER -> Text(r[f])

\* result.get('success', False), as a truth value
GetSuccess(r) == IF "success" \in DOMAIN r THEN r.success ELSE FALSE

\* result.get('data', result)
GetData(r) == IF "data" \in DOMAIN r THEN r.data ELSE Map(r)

(***************************************************************************)
(* execution_context: a Python dict, i.e. a mapping that keeps the order   *)
(* in which its keys were first inserted.  A sequence of [k, v] entries.   *)
(***************************************************************************)
DictKeys(d) == {d[n].k : n \in DOMAIN d}
DictHas(d, k) == \E n \in DOMAIN d : d[n].k = k
DictGet(d, k) == d[CHOOSE n \in DOMAIN d : d[n].k = k].v
DictSet(d, k, v) ==
    IF DictHas(d, k)
    THEN [n \in DOMAIN d |-> IF d[n].k = k THEN [k |-> k, v |-> v] ELSE d[n]]
    ELSE Append(d, [k |-> k, v |-> v])

(***************************************************************************)
(* FunctionRegistry (src/src/functions/base.py).                           *)
(***************************************************************************)
\* two of the library's operations, as registered objects
ReadCSVFunction ==
    [name |-> "read_csv", category |-> "data_processing", impl |-> "ReadCSVFunction"]
SummarizeDataFunction ==
    [name |-> "summarize_data", category |-> "data_processing",
     impl |-> "SummarizeDataFunction"]

ReadFileFunction ==
    [name |-> "read_file", category |-> "file_operations", impl |-> "ReadFileFunction"]

\* an operation of another class that is also named read_csv
OtherReadCSVFunction ==
    [name |-> "read_csv", category |-> "file_operations", impl |-> "OtherReadCSVFunction"]

\* FunctionRegistry.__init__
EmptyRegistry == [functions |-> EmptyDict, categories |-> EmptyDict]

\* FunctionRegistry.register: returns the registry after the call
register(reg, function) ==
    LET cats == IF DictHas(reg.categories, function.category)
                THEN reg.categories
                ELSE DictSet(reg.categories, function.category, <<>>)
    IN  [functions |-> DictSet(reg.functions, function.name, function),
         categories |-> DictSet(cats, function.category,
                                Append(DictGet(cats, function.category),
                                       function.name))]

\* the registry after the registration phase
RECURSIVE RegisterAll(_, _)
RegisterAll(reg, fs) ==
    IF fs = <<>> THEN reg ELSE RegisterAll(register(reg, Head(fs)), Tail(fs))

\* mutant of get_function: a name that is not registered yields the first
\* registered operation
Mut_get_function(reg, name) ==
    IF name.t = "name" /\ DictHas(reg.functions, name.n)
    THEN [found |-> TRUE, function |-> DictGet(reg.functions, name.n)]
    ELSE [found |-> TRUE, function |-> reg.functions[1].v]

\* FunctionRegistry.get_function: self.functions.get(name); name is a value
get_function(reg, name) ==
    IF name.t = "name" /\ DictHas(reg.functions, name.n)
    THEN [found |-> TRUE, function |-> DictGet(reg.functions, name.n)]
    ELSE [found |-> FALSE]

\* FunctionRegistry.get_functions_by_category
get_functions_by_category(reg, category) ==
    IF ~DictHas(reg.categories, category) THEN <<>>
    ELSE [n \in DOMAIN DictGet(reg.categories, category) |->
             DictGet(reg.functions, DictGet(reg.categories, category)[n])]

\* the parameters of each operation's execute method, as _generate_schema
\* reads them from its signature: required when they have no default
Signature ==
    [ReadCSVFunction |-> <<[name |-> "file_path", required |-> TRUE],
                           [name |-> "delimiter", required |-> FALSE]>>,
     SummarizeDataFunction |-> <<[name |-> "data", required |-> TRUE],
                                 [name |-> "column", required |-> TRUE]>>]

\* BaseFunction.to_dict: the schema of a registered operation
to_dict(function) ==
    [name |-> function.name, category |-> function.category,
     parameters |-> Signature[function.impl]]

\* FunctionRegistry.get_function_schemas
get_function_schemas(reg) ==
    [n \in DOMAIN reg.functions |-> to_dict(reg.functions[n].v)]

(***************************************************************************)
(* FunctionCallingModel (src/src/models/function_calling.py).              *)
(***************************************************************************)
\* the error the validator appends for call (one-based) number n
ValidationError(n, error) == [call |-> n, error |-> error]

\* mutant of CheckCall: the required parameters are not looked at
MutCheckCall(call, available_functions) ==
    IF call.t = "str"
    THEN IF Contains(call.s, Spelling.function_name)
         THEN [kind |-> "raise"]
         ELSE [kind |-> "error", error |-> "Missing 'function_name'"]
    ELSE IF call.t # "map" THEN [kind |-> "raise"]
    ELSE IF "function_name" \notin DOMAIN call.m
    THEN [kind |-> "error", error |-> "Missing 'function_name'"]
    ELSE IF ~\E k \in DOMAIN available_functions :
                call.m.function_name = Name(available_functions[k].name)
    THEN [kind |-> "error", error |-> "Unknown function"]
    ELSE IF "parameters" \notin DOMAIN call.m
    THEN [kind |-> "error", error |-> "Missing 'parameters'"]
    ELSE IF call.m.parameters.t # "dict" THEN [kind |-> "raise"]
    ELSE [kind |-> "ok"]

\* the body of the loop of validate_function_calls for one entry: no error,
\* one error, or an exception ('in' on a str entry is a substring test)
CheckCall(call, available_functions) ==
    IF call.t = "str"
    THEN IF Contains(call.s, Spelling.function_name)
         THEN [kind |-> "raise"]
         ELSE [kind |-> "error", error |-> "Missing 'function_name'"]
    ELSE IF call.t # "map" THEN [kind |-> "raise"]
    ELSE IF "function_name" \notin DOMAIN call.m
    THEN [kind |-> "error", error |-> "Missing 'function_name'"]
    ELSE IF ~\E k \in DOMAIN available_functions :
                call.m.function_name = Name(available_functions[k].name)
    THEN [kind |-> "error", error |-> "Unknown function"]
    ELSE IF "parameters" \notin DOMAIN call.m
    THEN [kind |-> "error", error |-> "Missing 'parameters'"]
    ELSE IF call.m.parameters.t # "dict" THEN [kind |-> "raise"]
    ELSE LET func_def ==
                 available_functions[
                     CHOOSE k \in DOMAIN available_functions :
                         /\ call.m.function_name = Name(available_functions[k].name)
                         /\ \A h \in DOMAIN available_functions :
                               call.m.function_name = Name(available_functions[h].name)
                                   => k <= h]
             required_params ==
                 {func_def.parameters[k].name : k \in
                     {h \in DOMAIN func_def.parameters : func_def.parameters[h].required}}
             missing_params == required_params \ DOMAIN call.m.parameters.d
         IN  IF missing_params # {}
             THEN [kind |-> "error", error |-> "Missing required parameters"]
             ELSE [kind |-> "ok"]

RECURSIVE ValidateFrom(_, _, _, _)
\* mutant of ValidateFrom: validation stops at the first failing call
MutValidateFrom(function_calls, available_functions, i, errors) ==
    IF i >= Len(function_calls)
    THEN [raised |-> FALSE, is_valid |-> (Len(errors) = 0), errors |-> errors]
    ELSE LET check == CheckCall(function_calls[i + 1], available_functions)
         IN  IF check.kind = "raise" THEN [raised |-> TRUE]
             ELSE IF check.kind = "error"
             THEN [raised |-> FALSE, is_valid |-> FALSE,
                   errors |-> Append(errors, ValidationError(i + 1, check.error))]
             ELSE ValidateFrom(function_calls, available_functions, i + 1, errors)

\* the loop of validate_function_calls from entry i (zero-based) on
ValidateFrom(function_calls, available_functions, i, errors) ==
    IF i >= Len(function_calls)
    THEN [raised |-> FALSE, is_valid |-> (Len(errors) = 0), errors |-> errors]
    ELSE LET check == CheckCall(function_calls[i + 1], available_functions)
         IN  IF check.kind = "raise" THEN [raised |-> TRUE]
             ELSE ValidateFrom(function_calls, available_functions, i + 1,
                               IF check.kind = "error"
                               THEN Append(errors, ValidationError(i + 1, check.error))
                               ELSE errors)

\* FunctionCallingModel.validate_function_calls
validate_function_calls(function_calls, available_functions) ==
    ValidateFrom(function_calls, available_functions, 0, <<>>)

(***************************************************************************)
(* ExecutionEngine (src/src/pipeline/execution_engine.py).                 *)
(***************************************************************************)
Dict(d) == [t |-> "dict", d |-> d]

\* call.get(key, default) on a call mapping
CallGet(call, key, default) == IF key \in DOMAIN call THEN call[key] ELSE default

critical_functions ==
    {"read_csv", "read_file", "read_json", "read_excel", "query_database",
     "fetch_web_page"}

\* mutant of _is_critical_function: read_json is missing from the list
Mut_is_critical_function(call) ==
    LET function_name == CallGet(call, "function_name", Name(""))
    IN  function_name.t = "name"
        /\ function_name.n \in critical_functions \ {"read_json"}

\* ExecutionEngine._is_critical_function
_is_critical_function(call) ==
    LET function_name == CallGet(call, "function_name", Name(""))
    IN  function_name.t = "name" /\ function_name.n \in critical_functions

\* mutant of FallbackScan: the substring test is lost, the first entry wins
MutFallbackScan(ctx, reference) ==
    IF ctx = <<>> THEN None ELSE GetData(ctx[1].v)

\* the fallback scan at the end of _resolve_reference: the first context key,
\* in insertion order, that contains the reference
FallbackScan(ctx, reference) ==
    LET hits == {n \in DOMAIN ctx : Contains(ctx[n].k, reference)}
    IN  IF hits = {} THEN None
        ELSE GetData(ctx[CHOOSE n \in hits : \A h \in hits : n <= h].v)

\* the dotted walk below the first segment: into result mappings and dicts
RECURSIVE WalkValue(_, _)
WalkValue(obj, parts) ==
    IF parts = <<>> THEN obj
    ELSE IF obj.t = "map"
            /\ \E f \in DOMAIN obj.m : Spelling[f] = Head(parts)
    THEN WalkValue(FieldValue(obj.m, CHOOSE f \in DOMAIN obj.m :
                                         Spelling[f] = Head(parts)),
                   Tail(parts))
    ELSE IF obj.t = "dict"
            /\ \E f \in DOMAIN obj.d : Spelling[f] = Head(parts)
    THEN WalkValue(obj.d[CHOOSE f \in DOMAIN obj.d : Spelling[f] = Head(parts)],
                   Tail(parts))
    ELSE None

\* the nested-reference branch: obj starts as the execution context itself
WalkContext(ctx, parts) ==
    IF DictHas(ctx, Head(parts))
    THEN WalkValue(Map(DictGet(ctx, Head(parts))), Tail(parts))
    ELSE None

\* mutant of _resolve_reference: a direct reference takes the latest result
Mut_resolve_reference(ctx, reference) ==
    IF reference = S_output_from_previous
    THEN IF ctx # <<>>
         THEN GetData(DictGet(ctx, StrMax(DictKeys(ctx))))
         ELSE FallbackScan(ctx, reference)
    ELSE IF StartsWith(reference, S_result_)
    THEN IF DictHas(ctx, reference)
         THEN GetData(ctx[Len(ctx)].v)
         ELSE FallbackScan(ctx, reference)
    ELSE IF Contains(reference, <<".">>)
    THEN WalkContext(ctx, Split(reference))
    ELSE FallbackScan(ctx, reference)

\* ExecutionEngine._resolve_reference
_resolve_reference(ctx, reference) ==
    IF reference = S_output_from_previous
    THEN IF ctx # <<>>
         THEN GetData(DictGet(ctx, StrMax(DictKeys(ctx))))
         ELSE FallbackScan(ctx, reference)
    ELSE IF StartsWith(reference, S_result_)
    THEN IF DictHas(ctx, reference)
         THEN GetData(DictGet(ctx, reference))
         ELSE FallbackScan(ctx, reference)
    ELSE IF Contains(reference, <<".">>)
    THEN WalkContext(ctx, Split(reference))
    ELSE FallbackScan(ctx, reference)

\* mutant of IsReference: the closing delimiter is not required
MutIsReference(value) ==
    IsStr(value) /\ StartsWith(value.s, <<"{", "{">>)

\* the test of _process_parameters for "this value is a reference"
IsReference(value) ==
    IsStr(value) /\ StartsWith(value.s, <<"{", "{">>) /\ EndsWith(value.s, <<"}", "}">>)

\* value[2:-2].strip()
ReferenceText(value) == Strip(SubSeq(value.s, 3, Len(value.s) - 2))

\* ExecutionEngine._process_parameters
_process_parameters(ctx, parameters) ==
    [key \in DOMAIN parameters |->
        IF IsReference(parameters[key])
        THEN _resolve_reference(ctx, ReferenceText(parameters[key]))
        ELSE parameters[key]]

\* dict.update: the fields of upd are set in r
Update(r, upd) ==
    [f \in DOMAIN r \cup DOMAIN upd |-> IF f \in DOMAIN upd THEN upd[f] ELSE r[f]]

\* mutant of BeginCall: the parameters are resolved ahead of the run, against
\* an empty context
MutBeginCall(reg, ctx, call, call_index) ==
    LET function_name == CallGet(call, "function_name", None)
        parameters == CallGet(call, "parameters", Dict(EmptyDict))
    IN  IF ~get_function(reg, function_name).found
        THEN [kind |-> "result",
              result |-> [success |-> FALSE, error |-> "Function not found",
                          function_name |-> function_name,
                          call_index |-> call_index]]
        ELSE IF parameters.t # "dict"
        THEN [kind |-> "result",
              result |-> [success |-> FALSE, error |-> "AttributeError",
                          function_name |-> CallGet(call, "function_name", Name("unknown")),
                          call_index |-> call_index]]
        ELSE [kind |-> "await",
              processed_parameters |-> _process_parameters(EmptyDict, parameters.d)]

\* _execute_single_function up to its await: either a result is produced
\* without invoking anything, or the operation is invoked with the
\* processed parameters
BeginCall(reg, ctx, call, call_index) ==
    LET function_name == CallGet(call, "function_name", None)
        parameters == CallGet(call, "parameters", Dict(EmptyDict))
    IN  IF ~get_function(reg, function_name).found
        THEN [kind |-> "result",
              result |-> [success |-> FALSE, error |-> "Function not found",
                          function_name |-> function_name,
                          call_index |-> call_index]]
        ELSE IF parameters.t # "dict"
        THEN [kind |-> "result",
              result |-> [success |-> FALSE, error |-> "AttributeError",
                          function_name |-> CallGet(call, "function_name", Name("unknown")),
                          call_index |-> call_index]]
        ELSE [kind |-> "await",
              processed_parameters |-> _process_parameters(ctx, parameters.d)]

\* mutant of EndCall: the one-based position is stored as call_index
MutEndCall(call, call_index, processed_parameters, outcome) ==
    IF outcome.kind = "raise"
    THEN [success |-> FALSE, error |-> outcome.error,
          function_name |-> CallGet(call, "function_name", Name("unknown")),
          call_index |-> call_index + 1]
    ELSE Update(outcome.value,
                [function_name |-> CallGet(call, "function_name", None),
                 call_index |-> call_index + 1,
                 description |-> CallGet(call, "description", ""),
                 parameters_used |-> processed_parameters])

\* _execute_single_function from the completion of the awaited operation
EndCall(call, call_index, processed_parameters, outcome) ==
    IF outcome.kind = "raise"
    THEN [success |-> FALSE, error |-> outcome.error,
          function_name |-> CallGet(call, "function_name", Name("unknown")),
          call_index |-> call_index]
    ELSE Update(outcome.value,
                [function_name |-> CallGet(call, "function_name", None),
                 call_index |-> call_index,
                 description |-> CallGet(call, "description", ""),
                 parameters_used |-> processed_parameters])

\* mutant of _create_execution_result: failed_functions counts only the
\* results that carry success == False
Mut_create_execution_result(plan, results, message, success, now) ==
    [success |-> success,
     message |-> message,
     plan |-> plan,
     results |-> results,
     execution_summary |->
        [total_functions |-> Len(results),
         successful_functions |->
            Cardinality({n \in DOMAIN results : GetSuccess(results[n])}),
         failed_functions |->
            Cardinality({n \in DOMAIN results :
                            "success" \in DOMAIN results[n] /\ ~results[n].success}),
         execution_time |-> now]]

\* ExecutionEngine._create_execution_result; now is the timestamp read
_create_execution_result(plan, results, message, success, now) ==
    [success |-> success,
     message |-> message,
     plan |-> plan,
     results |-> results,
     execution_summary |->
        [total_functions |-> Len(results),
         successful_functions |->
            Cardinality({n \in DOMAIN results : GetSuccess(results[n])}),
         failed_functions |->
            Cardinality({n \in DOMAIN results : ~GetSuccess(results[n])}),
         execution_time |-> now]]

\* The for loop of execute_plan from index i up to the next await of an
\* operation or the end of the loop.  Iterations that invoke nothing (entry
\* whose function is not found, parameters that are no mapping) run through
\* without suspending.  The frame returned says where the coroutine stands:
\*   "awaiting"   function.execute(**processed_parameters) of call i is awaited
\*   "aggregate"  the loop is over (exhausted, or left by break)
\*   "error"      an exception reached the except clause of execute_plan
RECURSIVE Loop(_, _, _, _, _)
RECURSIVE Record(_, _, _, _, _, _)
Loop(reg, function_calls, i, results, ctx) ==
    IF i >= Len(function_calls)
    THEN [pc |-> "aggregate", i |-> i, results |-> results, ctx |-> ctx,
          processed_parameters |-> EmptyDict]
    ELSE IF ~IsMap(function_calls[i + 1])
    THEN \* call.get raises AttributeError on an entry that is no mapping
         [pc |-> "error", i |-> i, results |-> results, ctx |-> ctx,
          processed_parameters |-> EmptyDict]
    ELSE LET begin == BeginCall(reg, ctx, function_calls[i + 1].m, i)
         IN  IF begin.kind = "await"
             THEN [pc |-> "awaiting", i |-> i, results |-> results, ctx |-> ctx,
                   processed_parameters |-> begin.processed_parameters]
             ELSE Record(reg, function_calls, i, results, ctx, begin.result)

\* mutant of Record: the loop is left at every failed call, critical or not
MutRecord(reg, function_calls, i, results, ctx, result) ==
    LET results2 == Append(results, result)
        ctx2 == DictSet(ctx, ContextKey(i), result)
    IN  IF ~GetSuccess(result)
        THEN [pc |-> "aggregate", i |-> i, results |-> results2, ctx |-> ctx2,
              processed_parameters |-> EmptyDict]
        ELSE Loop(reg, function_calls, i + 1, results2, ctx2)

\* lines 40-48 of execute_plan: append the result, store it in the context,
\* break on a failed critical call, else go on with the next entry
Record(reg, function_calls, i, results, ctx, result) ==
    LET results2 == Append(results, result)
        ctx2 == DictSet(ctx, ContextKey(i), result)
    IN  IF ~GetSuccess(result) /\ _is_critical_function(function_calls[i + 1].m)
        THEN [pc |-> "aggregate", i |-> i, results |-> results2, ctx |-> ctx2,
              processed_parameters |-> EmptyDict]
        ELSE Loop(reg, function_calls, i + 1, results2, ctx2)

\* mutant of AllSucceeded: any() in place of all()
MutAllSucceeded(results) == \E n \in DOMAIN results : GetSuccess(results[n])

\* all(result.get('success', False) for result in results)
AllSucceeded(results) == \A n \in DOMAIN results : GetSuccess(results[n])

\* mutant of EmptyPlanResult: the empty plan falls through to the aggregation
MutEmptyPlanResult(plan, now) ==
    _create_execution_result(plan, <<>>, "Execution completed", TRUE, now)

\* lines 28-31 of execute_plan: what it returns for a plan without calls
EmptyPlanResult(plan, now) ==
    _create_execution_result(plan, <<>>, "No function calls to execute", FALSE, now)

\* mutant of Outcome: the exception of a malformed entry is not caught
MutOutcome(plan, frame, now) ==
    IF frame.pc = "aggregate"
    THEN _create_execution_result(plan, frame.results, "Execution completed",
                                  AllSucceeded(frame.results), now)
    ELSE [raised |-> "AttributeError"]

\* what execute_plan returns once the loop is left
Outcome(plan, frame, now) ==
    IF frame.pc = "aggregate"
    THEN _create_execution_result(plan, frame.results, "Execution completed",
                                  AllSucceeded(frame.results), now)
    ELSE _create_execution_result(plan, <<>>, "Execution error", FALSE, now)

(***************************************************************************)
(* FunctionCallingModel.optimize_function_sequence                         *)
(* (src/src/models/function_calling.py).                                   *)
(***************************************************************************)
\* the signature under which optimize_function_sequence remembers a call
CallSignature(call) == <<call.m.function_name, call.m.parameters>>

\* the loop of optimize_function_sequence from entry i (zero-based) on: a
\* call is kept unless one with the same name and parameters was kept before;
\* an entry without function_name or parameters, or no mapping, raises
RECURSIVE OptimizeFrom(_, _, _, _)
OptimizeFrom(function_calls, i, seen, optimized) ==
    IF i >= Len(function_calls)
    THEN [raised |-> FALSE, function_calls |-> optimized]
    ELSE LET call == function_calls[i + 1]
         IN  IF \/ call.t # "map"
                \/ "function_name" \notin DOMAIN call.m
                \/ "parameters" \notin DOMAIN call.m
             THEN [raised |-> TRUE]
             ELSE IF CallSignature(call) \in seen
             THEN OptimizeFrom(function_calls, i + 1, seen, optimized)
             ELSE OptimizeFrom(function_calls, i + 1,
                               seen \cup {CallSignature(call)},
                               Append(optimized, call))

\* FunctionCallingModel.optimize_function_sequence
optimize_function_sequence(function_calls) ==
    OptimizeFrom(function_calls, 0, {}, <<>>)

(***************************************************************************)
(* QueryProcessor (src/src/pipeline/query_processor.py).                   *)
(***************************************************************************)
\* mutant of SetDefault: the default replaces a value that is present
MutSetDefault(parameters, key, value) ==
    [f \in DOMAIN parameters \cup {key} |->
        IF f = key THEN value ELSE parameters[f]]

\* if key not in parameters: parameters[key] = value
SetDefault(parameters, key, value) ==
    IF key \in DOMAIN parameters THEN parameters
    ELSE [f \in DOMAIN parameters \cup {key} |->
             IF f = key THEN value ELSE parameters[f]]

\* the defaults _fix_common_issues knows, per function name
Defaults(function_name) ==
    IF function_name = Name("send_email")
    THEN <<[key |-> "to_email", value |-> Text("abhayrajputcse@gmail.com")],
           [key |-> "subject", value |-> Text("Automated Email")],
           [key |-> "body", value |-> Text("This is an automated email.")]>>
    ELSE IF function_name = Name("read_csv")
    THEN <<[key |-> "file_path", value |-> Text("data/sample.csv")]>>
    ELSE IF function_name = Name("read_file")
    THEN <<[key |-> "file_path", value |-> Text("data/sample.txt")]>>
    ELSE <<>>

RECURSIVE SetDefaults(_, _)
SetDefaults(parameters, defaults) ==
    IF defaults = <<>> THEN parameters
    ELSE SetDefaults(SetDefault(parameters, Head(defaults).key, Head(defaults).value),
                     Tail(defaults))

\* the body of the loop of _fix_common_issues for one entry: the fixed call,
\* or an exception (item assignment on an entry that is no mapping, the 'in'
\* test on parameters that are no mapping)
FixCall(call) ==
    IF call.t # "map" THEN [raised |-> TRUE]
    ELSE LET with_parameters ==
                 IF "parameters" \in DOMAIN call.m THEN call.m
                 ELSE Update(call.m, [parameters |-> Dict(EmptyDict)])
             function_name == CallGet(with_parameters, "function_name", Text(""))
         IN  IF Defaults(function_name) = <<>>
             THEN [raised |-> FALSE, call |-> Map(with_parameters)]
             ELSE IF with_parameters.parameters.t # "dict"
             THEN [raised |-> TRUE]
             ELSE [raised |-> FALSE,
                   call |-> Map(Update(with_parameters,
                       [parameters |->
                           Dict(SetDefaults(with_parameters.parameters.d,
                                            Defaults(function_name)))]))]

\* QueryProcessor._fix_common_issues
_fix_common_issues(plan) ==
    IF "function_calls" \notin DOMAIN plan
    THEN [raised |-> FALSE, plan |-> plan]
    ELSE IF \E n \in DOMAIN plan.function_calls : FixCall(plan.function_calls[n]).raised
    THEN [raised |-> TRUE]
    ELSE [raised |-> FALSE,
          plan |-> Update(plan,
              [function_calls |->
                  [n \in DOMAIN plan.function_calls |->
                      FixCall(plan.function_calls[n]).call]])]

\* QueryProcessor._create_error_response
_create_error_response(query) ==
    [query |-> query,
     plan |-> "Error occurred while processing query",
     function_calls |-> <<>>,
     error |-> "error",
     valid |-> FALSE]

\* lines 49-60 of process_query: optimize the sequence, attach the metadata
Finish(query, plan, is_valid, errors) ==
    LET optimized ==
            IF "function_calls" \in DOMAIN plan
            THEN optimize_function_sequence(plan.function_calls)
            ELSE [raised |-> FALSE]
        plan2 == IF "function_calls" \in DOMAIN plan
                 THEN Update(plan, [function_calls |-> optimized.function_calls])
                 ELSE plan
    IN  IF optimized.raised THEN _create_error_response(query)
        ELSE Update(plan2, [query |-> query,
                            valid |-> is_valid,
                            errors |-> IF ~is_valid THEN errors ELSE <<>>])

\* QueryProcessor.process_query; raw is the plan the planner produced for
\* the query, available_functions the schemas of the registry
process_query(query, raw, available_functions) ==
    LET first == validate_function_calls(
                     IF "function_calls" \in DOMAIN raw THEN raw.function_calls ELSE <<>>,
                     available_functions)
    IN  IF first.raised THEN _create_error_response(query)
        ELSE IF first.is_valid THEN Finish(query, raw, TRUE, <<>>)
        ELSE LET fixed == _fix_common_issues(raw)
             IN  IF fixed.raised THEN _create_error_response(query)
                 ELSE Finish(query, fixed.plan, FALSE, first.errors)

(***************************************************************************)
(* State.                                                                  *)
(***************************************************************************)
\* callers of the engine: coroutines that each invoke one engine method at a time
Tasks == {"t1", "t2"}

VARIABLES
    registry,           \* the process-wide FunctionRegistry
    execution_context,  \* ExecutionEngine.execution_context
    results_history,    \* ExecutionEngine.results_history
    clock,              \* number of timestamps read so far
    nruns,              \* number of engine invocations started so far
    pc,                 \* per task: "idle", "awaiting", "returned"
    method,             \* per task: the engine method it invoked last
    plan,               \* per task: the plan argument of its invocation
    idx,                \* per task: the loop variable i
    results,            \* per task: the local list results
    processed,          \* per task: processed_parameters of the awaited call
    returned,           \* per task: the value its last invocation returned
    invoked,            \* per task: the operations invoked by its invocation
    validation,         \* the last call of validate_function_calls and its outcome
    initialized,        \* PipelineManager.initialized
    repaired,           \* the last call of _fix_common_issues and its outcome
    lifecycle,          \* the last call of initialize() or shutdown() and what it returned
    nplanned,           \* number of calls of QueryProcessor.process_query so far
    query_result        \* per task: what PipelineManager.process_query returned

\* the state of the engine and of the registry
engine_vars == <<registry, execution_context, results_history, clock, nruns, pc,
                 method, plan, idx, results, processed, returned, invoked>>

\* the state of the components in front of the engine
pipeline_vars == <<validation, initialized, repaired, lifecycle, nplanned, query_result>>

vars == <<registry, execution_context, results_history, clock, nruns, pc, method,
          plan, idx, results, processed, returned, invoked, validation, initialized,
          repaired, lifecycle, nplanned, query_result>>

\* placeholder of a task that has not been given a result yet
NoResult == [none |-> TRUE]
\* placeholder of a task that holds no plan
NoPlan == [none |-> TRUE]

(***************************************************************************)
(* Inputs: call entries, plans, and what an invoked operation may do.      *)
(***************************************************************************)
RefResult0 == <<"{", "{", "r", "e", "s", "u", "l", "t", "_", "0", "}", "}">>
RefResult1 == <<"{", "{", "r", "e", "s", "u", "l", "t", "_", "1", "}", "}">>
RefResult0Data ==
    <<"{", "{", "r", "e", "s", "u", "l", "t", "_", "0", ".", "d", "a", "t", "a", "}", "}">>
RefPrevious ==
    <<"{", "{", "o", "u", "t", "p", "u", "t", "_", "f", "r", "o", "m", "_",
      "p", "r", "e", "v", "i", "o", "u", "s", "}", "}">>
\* the reference form of the planner's prompt (rule 3 and the example)
RefPreviousResult ==
    <<"{", "{", "p", "r", "e", "v", "i", "o", "u", "s", "_", "r", "e", "s", "u", "l", "t",
      "}", "}">>
TextWithRef ==
    <<"s", "e", "e", " ", "{", "{", "r", "e", "s", "u", "l", "t", "_", "0", "}", "}">>
LitPath == <<"a", ".", "c", "s", "v">>
LitAmount == <<"a", "m", "o", "u", "n", "t">>

\* read_csv(file_path="a.csv"): a critical, registered operation
CallReadCsv ==
    Map([function_name |-> Name("read_csv"),
         parameters |-> Dict([file_path |-> Str(LitPath)]),
         description |-> "load"])

\* summarize_data(data=v, column="amount"): a non-critical, registered operation
CallSummarize(v) ==
    Map([function_name |-> Name("summarize_data"),
         parameters |-> Dict([data |-> v, column |-> Str(LitAmount)]),
         description |-> "summarize"])

\* a name that is not registered and not critical; no description
CallUnknown ==
    Map([function_name |-> Name("no_such_function"), parameters |-> Dict(EmptyDict)])

\* a name that is critical and not registered
CallUnknownCritical ==
    Map([function_name |-> Name("read_json"),
         parameters |-> Dict([file_path |-> Str(LitPath)]),
         description |-> "load json"])

\* an entry without a function_name field
CallNoName ==
    Map([parameters |-> Dict(EmptyDict), description |-> "anonymous"])

\* a registered operation whose parameters field is null
CallNullParameters ==
    Map([function_name |-> Name("summarize_data"), parameters |-> None,
         description |-> "summarize"])

\* an entry of function_calls that is no mapping
EntryNoMapping == Str(<<"o", "o", "p", "s">>)

\* the values given to the data parameter of summarize_data
DataArguments ==
    {Str(RefResult0), Str(RefResult1), Str(RefResult0Data), Str(RefPrevious),
     Str(TextWithRef)}

CallSet ==
    {CallReadCsv, CallUnknown, CallUnknownCritical, CallNoName,
     CallNullParameters, EntryNoMapping}
    \cup {CallSummarize(v) : v \in DataArguments}

\* the entries of the longest plans: calls of registered and of unregistered
\* functions, critical and not, with the references to earlier results
CoreCallSet ==
    {CallReadCsv, CallUnknown, CallUnknownCritical,
     CallSummarize(Str(RefResult0)), CallSummarize(Str(RefResult1)),
     CallSummarize(Str(RefPrevious))}

\* plans: one without a function_calls field, every plan of fewer than
\* MaxPlanLen entries of CallSet, and the plans of MaxPlanLen entries of
\* CoreCallSet
PlanSet ==
    {[plan |-> "p"]}
    \cup {[plan |-> "p", function_calls |-> cs] :
            cs \in UNION {[1..n -> CallSet] : n \in 0..(MaxPlanLen - 1)}}
    \cup {[plan |-> "p", function_calls |-> cs] :
            cs \in [1..MaxPlanLen -> CoreCallSet]}

\* what function.execute may do once invoked: return a mapping, or raise
OpOutcomes ==
    {[kind |-> "return", value |-> [success |-> TRUE, data |-> Obj("rows")]],
     [kind |-> "return", value |-> [success |-> TRUE, message |-> "done"]],
     [kind |-> "return", value |-> [success |-> FALSE, error |-> "failed"]],
     [kind |-> "return", value |-> [data |-> Obj("rows")]],
     [kind |-> "raise", error |-> "boom"]}

(***************************************************************************)
(* Init and the actions.                                                   *)
(***************************************************************************)
Init ==
    /\ registry = RegisterAll(EmptyRegistry, <<ReadCSVFunction, SummarizeDataFunction>>)
    /\ execution_context = EmptyDict
    /\ results_history = <<>>
    /\ clock = 0
    /\ nruns = 0
    /\ pc = [t \in Tasks |-> "idle"]
    /\ method = [t \in Tasks |-> "none"]
    /\ plan = [t \in Tasks |-> NoPlan]
    /\ idx = [t \in Tasks |-> 0]
    /\ results = [t \in Tasks |-> <<>>]
    /\ processed = [t \in Tasks |-> EmptyDict]
    /\ returned = [t \in Tasks |-> NoResult]
    /\ invoked = [t \in Tasks |-> <<>>]
    /\ validation = NoResult
    /\ initialized = FALSE
    /\ repaired = NoResult
    /\ lifecycle = NoResult
    /\ nplanned = 0
    /\ query_result = [t \in Tasks |-> NoResult]

\* plan.get('function_calls', [])
FunctionCalls(p) == IF "function_calls" \in DOMAIN p THEN p.function_calls ELSE <<>>

\* The coroutine of task t moves to the frame the loop reached: it either
\* awaits the operation it has just invoked, or execute_plan returns.
Proceed(t, p, frame) ==
    /\ execution_context' = frame.ctx
    /\ results' = [results EXCEPT ![t] = frame.results]
    /\ idx' = [idx EXCEPT ![t] = frame.i]
    /\ processed' = [processed EXCEPT ![t] = frame.processed_parameters]
    /\ IF frame.pc = "awaiting"
       THEN /\ pc' = [pc EXCEPT ![t] = "awaiting"]
            /\ UNCHANGED <<returned, results_history, clock>>
       ELSE /\ pc' = [pc EXCEPT ![t] = "returned"]
            /\ returned' = [returned EXCEPT ![t] = Outcome(p, frame, clock)]
            /\ clock' = clock + 1
            /\ results_history' =
                  IF frame.pc = "aggregate"
                  THEN Append(results_history, Outcome(p, frame, clock))
                  ELSE results_history

\* the record of an operation invocation: which call, which operation, which
\* keyword arguments
Invocation(p, frame) ==
    [call_index |-> frame.i,
     function_name |-> CallGet(FunctionCalls(p)[frame.i + 1].m, "function_name", None),
     kwargs |-> frame.processed_parameters]

\* mutant of FreshContext: the context of the earlier run is kept
MutFreshContext(ctx) == ctx

\* line 34 of execute_plan: self.execution_context = {}
FreshContext(ctx) == EmptyDict

\* ExecutionEngine.execute_plan, from the call to its first await or return
execute_plan(t, p) ==
    /\ pc[t] # "awaiting"
    /\ nruns' = nruns + 1
    /\ plan' = [plan EXCEPT ![t] = p]
    /\ method' = [method EXCEPT ![t] = "execute_plan"]
    /\ UNCHANGED registry
    /\ IF FunctionCalls(p) = <<>>
       THEN /\ pc' = [pc EXCEPT ![t] = "returned"]
            /\ returned' = [returned EXCEPT ![t] = EmptyPlanResult(p, clock)]
            /\ clock' = clock + 1
            /\ results' = [results EXCEPT ![t] = <<>>]
            /\ idx' = [idx EXCEPT ![t] = 0]
            /\ processed' = [processed EXCEPT ![t] = EmptyDict]
            /\ invoked' = [invoked EXCEPT ![t] = <<>>]
            /\ UNCHANGED <<execution_context, results_history>>
       ELSE LET frame == Loop(registry, FunctionCalls(p), 0, <<>>,
                              FreshContext(execution_context))
            IN  /\ Proceed(t, p, frame)
                /\ invoked' = [invoked EXCEPT ![t] =
                      IF frame.pc = "awaiting" THEN <<Invocation(p, frame)>> ELSE <<>>]

\* The operation awaited by task t returns or raises: execute_plan resumes,
\* records the result and runs on to its next await or to its return.
OperationCompletes(t, outcome) ==
    /\ pc[t] = "awaiting"
    /\ LET call == FunctionCalls(plan[t])[idx[t] + 1].m
           result == EndCall(call, idx[t], processed[t], outcome)
           frame == Record(registry, FunctionCalls(plan[t]), idx[t], results[t],
                           execution_context, result)
       IN  /\ Proceed(t, plan[t], frame)
           /\ invoked' = [invoked EXCEPT ![t] =
                 IF frame.pc = "awaiting"
                 THEN Append(invoked[t], Invocation(plan[t], frame))
                 ELSE invoked[t]]
    /\ UNCHANGED <<registry, nruns, plan, method>>

\* mutant of SimulatedResult: a name that is not registered fails
MutSimulatedResult(call, i) ==
    [success |-> get_function(registry, CallGet(call, "function_name", None)).found,
     function_name |-> CallGet(call, "function_name", Name("unknown")),
     call_index |-> i,
     description |-> CallGet(call, "description", ""),
     simulated |-> TRUE,
     message |-> "Simulated execution"]

\* one simulated result of simulate_execution
SimulatedResult(call, i) ==
    [success |-> TRUE,
     function_name |-> CallGet(call, "function_name", Name("unknown")),
     call_index |-> i,
     description |-> CallGet(call, "description", ""),
     simulated |-> TRUE,
     message |-> "Simulated execution"]

\* ExecutionEngine.simulate_execution: synchronous; an entry that is no
\* mapping makes call.get raise, and nothing catches it
simulate_execution(t, p) ==
    /\ pc[t] # "awaiting"
    /\ nruns' = nruns + 1
    /\ plan' = [plan EXCEPT ![t] = p]
    /\ method' = [method EXCEPT ![t] = "simulate_execution"]
    /\ pc' = [pc EXCEPT ![t] = "returned"]
    /\ LET function_calls == FunctionCalls(p)
       IN  IF \E n \in DOMAIN function_calls : ~IsMap(function_calls[n])
           THEN /\ returned' = [returned EXCEPT ![t] = [raised |-> "AttributeError"]]
                /\ UNCHANGED clock
           ELSE /\ returned' = [returned EXCEPT ![t] =
                      _create_execution_result(
                          p,
                          [n \in DOMAIN function_calls |->
                              SimulatedResult(function_calls[n].m, n - 1)],
                          "Simulation completed", TRUE, clock)]
                /\ clock' = clock + 1
    /\ results' = [results EXCEPT ![t] = <<>>]
    /\ idx' = [idx EXCEPT ![t] = 0]
    /\ processed' = [processed EXCEPT ![t] = EmptyDict]
    /\ invoked' = [invoked EXCEPT ![t] = <<>>]
    /\ UNCHANGED <<registry, execution_context, results_history>>

\* plans of 1..MaxLongLen calls that each pass on the previous output
LongPlanSet ==
    {[plan |-> "chain",
      function_calls |-> [n \in 1..len |-> CallSummarize(Str(RefPrevious))]] :
        len \in 1..MaxLongLen}

\* the operations of a long plan return with or without a data field
LongOutcomes ==
    {[kind |-> "return", value |-> [success |-> TRUE, data |-> Obj("rows")]],
     [kind |-> "return", value |-> [success |-> TRUE, message |-> "done"]]}

\* a freshly constructed engine runs one long plan
NextLong ==
    \/ /\ pc["t1"] = "idle" /\ UNCHANGED pipeline_vars
       /\ \E p \in LongPlanSet : execute_plan("t1", p)
    \/ /\ UNCHANGED pipeline_vars
       /\ \E outcome \in LongOutcomes : OperationCompletes("t1", outcome)

SpecLong == Init /\ [][NextLong]_vars

\* the plans of two callers that share the engine: a load followed by two
\* calls that refer to result 0, and a chain of summaries
ConcPlanSet ==
    {[plan |-> "load",
      function_calls |-> <<CallReadCsv, CallSummarize(Str(RefResult0)),
                           CallSummarize(Str(RefResult0))>>],
     [plan |-> "chain",
      function_calls |-> <<CallSummarize(Str(RefPrevious)),
                           CallSummarize(Str(RefResult0))>>]}

\* the operations of concurrent runs return with or without a data field
ConcOutcomes ==
    {[kind |-> "return", value |-> [success |-> TRUE, data |-> Obj("rows")]],
     [kind |-> "return", value |-> [success |-> TRUE, message |-> "done"]]}

\* Two coroutines (e.g. two process_query calls gathered on one
\* PipelineManager) each invoke execute_plan once on the one engine; the
\* event loop switches between them where an operation is awaited.
NextConc ==
    \/ /\ UNCHANGED pipeline_vars
       /\ \E t \in Tasks :
             pc[t] = "idle" /\ \E p \in ConcPlanSet : execute_plan(t, p)
    \/ /\ UNCHANGED pipeline_vars
       /\ \E t \in Tasks :
             \E outcome \in ConcOutcomes : OperationCompletes(t, outcome)

SpecConc == Init /\ [][NextConc]_vars

\* the plans run one after the other on one engine: without calls, with a
\* direct reference, with references to the previous output, and one whose
\* second entry is no mapping (its run ends in a top-level error and leaves
\* result_0 in the context)
RerunPlanSet ==
    {[plan |-> "none", function_calls |-> <<>>],
     [plan |-> "load", function_calls |-> <<CallReadCsv, CallSummarize(Str(RefResult0))>>],
     [plan |-> "chain",
      function_calls |-> <<CallSummarize(Str(RefPrevious)),
                           CallSummarize(Str(RefPrevious))>>],
     [plan |-> "broken", function_calls |-> <<CallReadCsv, EntryNoMapping>>]}

\* the operations of these runs return with or without a data field
RerunOutcomes ==
    {[kind |-> "return", value |-> [success |-> TRUE, data |-> Obj("rows")]],
     [kind |-> "return", value |-> [success |-> TRUE, message |-> "done"]]}

\* no invocation of the engine is under way
Quiescent == \A t \in Tasks : pc[t] # "awaiting"

\* One engine serves up to MaxRuns invocations, each started after the
\* one before it has returned.
NextRerun ==
    \/ /\ Quiescent /\ nruns < MaxRuns /\ UNCHANGED pipeline_vars
       /\ \E t \in Tasks : \E p \in RerunPlanSet : execute_plan(t, p)
    \/ /\ UNCHANGED pipeline_vars
       /\ \E t \in Tasks : \E outcome \in RerunOutcomes : OperationCompletes(t, outcome)
    \/ /\ Quiescent /\ nruns < MaxRuns /\ UNCHANGED pipeline_vars
       /\ \E t \in Tasks : \E p \in RerunPlanSet : simulate_execution(t, p)

SpecRerun == Init /\ [][NextRerun]_vars

\* the operations handed to register after the registration phase
Registrable ==
    {ReadCSVFunction, SummarizeDataFunction, ReadFileFunction, OtherReadCSVFunction}

\* number of names in the category listings: one per register call so far
RECURSIVE Listed(_)
Listed(categories) ==
    IF categories = <<>> THEN 0
    ELSE Len(Head(categories).v) + Listed(Tail(categories))

\* one call of registry.register(function)
register_function(function) ==
    /\ registry' = register(registry, function)
    /\ UNCHANGED <<execution_context, results_history, clock, nruns, pc, method,
                   plan, idx, results, processed, returned, invoked>>
    /\ UNCHANGED pipeline_vars

NextRegister ==
    /\ Listed(registry.categories) < Listed(
          RegisterAll(EmptyRegistry, <<ReadCSVFunction, SummarizeDataFunction>>).categories)
          + MaxRegistrations
    /\ \E function \in Registrable : register_function(function)

SpecRegister == Init /\ [][NextRegister]_vars

\* read_csv without its required file_path
CallReadCsvNoPath ==
    Map([function_name |-> Name("read_csv"), parameters |-> Dict(EmptyDict),
         description |-> "load"])

\* summarize_data without its required column
CallSummarizeNoColumn ==
    Map([function_name |-> Name("summarize_data"),
         parameters |-> Dict([data |-> Str(RefPrevious)]),
         description |-> "summarize"])

\* a registered operation without a parameters field
CallNoParameters ==
    Map([function_name |-> Name("summarize_data"), description |-> "summarize"])

\* the entries of the call lists given to the validator
ValidateCallSet ==
    {CallReadCsv, CallSummarize(Str(RefPrevious)), CallReadCsvNoPath,
     CallSummarizeNoColumn, CallNoParameters, CallUnknown, CallNoName,
     CallNullParameters, EntryNoMapping}

ValidateListSet == UNION {[1..n -> ValidateCallSet] : n \in 0..MaxValidateLen}

\* one call of validate_function_calls with the schemas of the registry
validate(function_calls) ==
    /\ validation' =
          [function_calls |-> function_calls,
           outcome |-> validate_function_calls(function_calls,
                                               get_function_schemas(registry))]
    /\ UNCHANGED <<engine_vars, initialized, repaired, lifecycle, nplanned, query_result>>

NextValidate ==
    validation = NoResult /\ \E function_calls \in ValidateListSet : validate(function_calls)

SpecValidate == Init /\ [][NextValidate]_vars

\* send_email without any of its parameters
CallSendEmail ==
    Map([function_name |-> Name("send_email"), parameters |-> Dict(EmptyDict),
         description |-> "mail"])

\* the entries of the plans that the planner produces
QueryCallSet ==
    {CallReadCsv, CallSummarize(Str(RefPrevious)), CallReadCsvNoPath,
     CallSummarizeNoColumn, CallNoParameters, CallUnknown, CallNoName,
     CallNullParameters, CallSendEmail, EntryNoMapping}

\* what plan_function_calls may return for a query
QueryPlanSet ==
    {[plan |-> "p"]}
    \cup {[plan |-> "p", function_calls |-> cs] :
            cs \in UNION {[1..n -> QueryCallSet] : n \in 0..MaxQueryLen}}

\* plans handed to the engine by a caller that does not go through the
\* query processor (as the tests of the engine do)
DirectPlanSet ==
    {[plan |-> "p", function_calls |-> <<EntryNoMapping>>],
     [plan |-> "p", function_calls |-> <<CallReadCsv, EntryNoMapping>>],
     [plan |-> "p", function_calls |-> <<CallNullParameters, CallNoName>>]}

\* the result of process_query before initialize()
NotInitialized == [success |-> FALSE, error |-> "Pipeline not initialized"]

\* the except clause of PipelineManager.process_query
QueryFailure(query) == [success |-> FALSE, error |-> "error", query |-> query]

\* Step 3 of PipelineManager.process_query; the model information and the
\* timestamp of the metadata are left out
QuerySuccess(query, p, execution_result) ==
    [success |-> TRUE, query |-> query, plan |-> p,
     execution_result |-> execution_result,
     metadata |-> [pipeline_version |-> "1.0.0"]]

\* process_query of task t is suspended in execute_plan
Pending == [pending |-> TRUE]

\* PipelineManager.initialize: ok says whether a model could be loaded; a
\* successful initialize creates a new ExecutionEngine
initialize(ok) ==
    /\ Quiescent
    /\ lifecycle' = [call |-> "initialize", returned |-> ok]
    /\ IF ok
       THEN /\ initialized' = TRUE
            /\ execution_context' = EmptyDict
            /\ results_history' = <<>>
       ELSE UNCHANGED <<initialized, execution_context, results_history>>
    /\ UNCHANGED <<registry, clock, nruns, pc, method, plan, idx, results, processed,
                   returned, invoked, validation, repaired, nplanned, query_result>>

\* PipelineManager.process_query, from the call to the first await in
\* execute_plan or to its return; raw is what the planner produces for the
\* query
PipelineManager_process_query(t, query, raw, execute, simulate) ==
    /\ pc[t] # "awaiting"
    /\ UNCHANGED <<validation, initialized, repaired, lifecycle>>
    /\ nplanned' = IF initialized THEN nplanned + 1 ELSE nplanned
    /\ IF ~initialized
       THEN /\ query_result' = [query_result EXCEPT ![t] = NotInitialized]
            /\ UNCHANGED engine_vars
       ELSE LET p == process_query(query, raw, get_function_schemas(registry))
            IN  IF ~execute
                THEN /\ query_result' =
                           [query_result EXCEPT ![t] = QuerySuccess(query, p, None)]
                     /\ UNCHANGED engine_vars
                ELSE IF simulate
                THEN /\ simulate_execution(t, p)
                     /\ query_result' = [query_result EXCEPT ![t] =
                           IF "raised" \in DOMAIN returned'[t]
                           THEN QueryFailure(query)
                           ELSE QuerySuccess(query, p, returned'[t])]
                ELSE /\ execute_plan(t, p)
                     /\ query_result' = [query_result EXCEPT ![t] =
                           IF pc'[t] = "returned"
                           THEN QuerySuccess(query, p, returned'[t])
                           ELSE Pending]

\* the operation awaited by task t completes; if execute_plan returns and
\* was called by process_query, process_query returns as well
Pipeline_OperationCompletes(t, outcome) ==
    /\ OperationCompletes(t, outcome)
    /\ query_result' = [query_result EXCEPT ![t] =
          IF query_result[t] = Pending /\ pc'[t] = "returned"
          THEN QuerySuccess(plan[t].query, plan[t], returned'[t])
          ELSE @]
    /\ UNCHANGED <<validation, initialized, repaired, lifecycle, nplanned>>

\* a caller invokes execute_plan on the manager's engine directly
direct_execute_plan(t, p) ==
    /\ initialized
    /\ execute_plan(t, p)
    /\ UNCHANGED pipeline_vars

\* One caller: the manager is initialized, then serves one query, or its
\* engine serves one direct invocation.
NextPipeline ==
    \/ ~initialized /\ \E ok \in BOOLEAN : initialize(ok)
    \/ /\ pc["t1"] = "idle" /\ query_result["t1"] = NoResult
       /\ \E raw \in QueryPlanSet : \E execute \in BOOLEAN : \E simulate \in BOOLEAN :
             PipelineManager_process_query("t1", "q", raw, execute, simulate)
    \/ \E outcome \in OpOutcomes : Pipeline_OperationCompletes("t1", outcome)
    \/ /\ pc["t1"] = "idle" /\ query_result["t1"] = NoResult
       /\ \E p \in DirectPlanSet : direct_execute_plan("t1", p)

SpecPipeline == Init /\ [][NextPipeline]_vars

\* an awaited operation returns or raises in the end
SpecPipelineLive ==
    SpecPipeline
    /\ WF_vars(\E outcome \in OpOutcomes : Pipeline_OperationCompletes("t1", outcome))

\* plans written as the planner's prompt tells: a load whose output goes
\* through two more calls, and a chain of three summaries
PromptPlanSet ==
    {[plan |-> "example",
      function_calls |-> <<CallReadCsv, CallSummarize(Str(RefPreviousResult)),
                           CallSummarize(Str(RefPreviousResult))>>],
     [plan |-> "chain",
      function_calls |-> [n \in 1..3 |-> CallSummarize(Str(RefPreviousResult))]]}

\* a freshly constructed engine runs one plan written after the prompt
NextPrompt ==
    \/ /\ pc["t1"] = "idle" /\ UNCHANGED pipeline_vars
       /\ \E p \in PromptPlanSet : execute_plan("t1", p)
    \/ /\ UNCHANGED pipeline_vars
       /\ \E outcome \in OpOutcomes : OperationCompletes("t1", outcome)

SpecPrompt == Init /\ [][NextPrompt]_vars

\* the plans of the runs whose context is watched: an unregistered name
\* ahead of two registered calls, a load with a summary, and no call at all
ContextPlanSet ==
    {[plan |-> "mixed",
      function_calls |-> <<CallUnknown, CallSummarize(Str(RefResult0)), CallReadCsv>>],
     [plan |-> "load",
      function_calls |-> <<CallReadCsv, CallSummarize(Str(RefPrevious))>>],
     [plan |-> "none", function_calls |-> <<>>]}

\* the operations of these runs succeed, report a failure, or raise
ContextOutcomes ==
    {[kind |-> "return", value |-> [success |-> TRUE, data |-> Obj("rows")]],
     [kind |-> "return", value |-> [success |-> FALSE, error |-> "failed"]],
     [kind |-> "raise", error |-> "boom"]}

\* One caller runs up to MaxRuns plans on one engine, one after the other.
NextContext ==
    \/ /\ nruns < MaxRuns /\ UNCHANGED pipeline_vars
       /\ \E p \in ContextPlanSet : execute_plan("t1", p)
    \/ /\ UNCHANGED pipeline_vars
       /\ \E outcome \in ContextOutcomes : OperationCompletes("t1", outcome)

SpecContext == Init /\ [][NextContext]_vars

\* parameter values of every kind: references, strings that are none (a
\* reference inside other text, one delimiter missing, a leading blank), and
\* values that are no strings (a number, null, a mapping that holds a reference)
ParameterValues ==
    {Str(RefResult0), Str(RefPrevious), Str(<<"{", "{", "}", "}">>),
     Str(TextWithRef),
     Str(<<"{", "{", "r", "e", "s", "u", "l", "t", "_", "0">>),
     Str(<<"r", "e", "s", "u", "l", "t", "_", "0", "}", "}">>),
     Str(<<" ">> \o RefResult0),
     Str(LitAmount), Int_(3), None, Bool(TRUE),
     Dict([inner |-> Str(RefResult0)])}

\* a load followed by one call whose data parameter is one of these values
ParameterPlanSet ==
    {[plan |-> "p", function_calls |-> <<CallReadCsv, CallSummarize(v)>>] :
        v \in ParameterValues}

\* a freshly constructed engine runs one such plan
NextParameters ==
    \/ /\ pc["t1"] = "idle" /\ UNCHANGED pipeline_vars
       /\ \E p \in ParameterPlanSet : execute_plan("t1", p)
    \/ /\ UNCHANGED pipeline_vars
       /\ \E outcome \in OpOutcomes : OperationCompletes("t1", outcome)

SpecParameters == Init /\ [][NextParameters]_vars

\* send_email with a subject of its own and nothing else
CallSendEmailSubject ==
    Map([function_name |-> Name("send_email"),
         parameters |-> Dict([subject |-> Str(LitAmount)]),
         description |-> "mail"])

\* send_email with all its parameters
CallSendEmailFull ==
    Map([function_name |-> Name("send_email"),
         parameters |-> Dict([to_email |-> Str(LitPath), subject |-> Str(LitAmount),
                              body |-> Str(RefPrevious)]),
         description |-> "mail"])

\* send_email whose parameters field is null
CallSendEmailNull ==
    Map([function_name |-> Name("send_email"), parameters |-> None])

\* read_file without parameters field
CallReadFileBare == Map([function_name |-> Name("read_file")])

\* the entries of the plans handed to the repairer
RepairCallSet ==
    {CallSendEmail, CallSendEmailSubject, CallSendEmailFull, CallSendEmailNull,
     CallReadCsv, CallReadCsvNoPath, CallReadFileBare, CallSummarizeNoColumn,
     CallNoParameters, CallUnknown, CallNoName, CallNullParameters, EntryNoMapping}

RepairPlanSet ==
    {[plan |-> "p"]}
    \cup {[plan |-> "p", function_calls |-> cs] :
            cs \in UNION {[1..n -> RepairCallSet] : n \in 0..MaxRepairLen}}

\* one call of _fix_common_issues(plan, errors)
fix_common_issues(p) ==
    /\ repaired' = [plan |-> p, outcome |-> _fix_common_issues(p)]
    /\ UNCHANGED <<engine_vars, validation, initialized, lifecycle, nplanned, query_result>>

NextRepair ==
    repaired = NoResult /\ \E p \in RepairPlanSet : fix_common_issues(p)

SpecRepair == Init /\ [][NextRepair]_vars

\* the queries of the lifecycle behaviours
Queries == {"q0", "q1", "q2"}

\* what the planner yields for each of them: a plan without calls, a call of
\* an unregistered name, an entry that is no mapping.  None of these plans
\* invokes an operation, so their execution never suspends.
PlannedFor(query) ==
    IF query = "q0" THEN [plan |-> "p"]
    ELSE IF query = "q1" THEN [plan |-> "p", function_calls |-> <<CallUnknown>>]
    ELSE [plan |-> "p", function_calls |-> <<EntryNoMapping>>]

\* execute_plan(p) would reach an await
Suspends(p) ==
    /\ FunctionCalls(p) # <<>>
    /\ Loop(registry, FunctionCalls(p), 0, <<>>, EmptyDict).pc = "awaiting"

\* execute_plan(p) run to its return on the engine state es (a plan that
\* does not suspend): the engine state afterwards
RunPlan(es, p) ==
    IF FunctionCalls(p) = <<>>
    THEN [es EXCEPT !.clock = @ + 1, !.nruns = @ + 1, !.plan = p, !.results = <<>>,
                    !.idx = 0, !.returned = EmptyPlanResult(p, es.clock)]
    ELSE LET frame == Loop(registry, FunctionCalls(p), 0, <<>>, FreshContext(es.ctx))
         IN  [ctx |-> frame.ctx,
              history |-> IF frame.pc = "aggregate"
                          THEN Append(es.history, Outcome(p, frame, es.clock))
                          ELSE es.history,
              clock |-> es.clock + 1,
              nruns |-> es.nruns + 1,
              plan |-> p,
              results |-> frame.results,
              idx |-> frame.i,
              returned |-> Outcome(p, frame, es.clock)]

\* the loop of process_batch_queries from query i (one-based) on
RECURSIVE BatchFrom(_, _, _, _, _)
BatchFrom(queries, execute, i, es, batch_results) ==
    IF i > Len(queries) THEN [es |-> es, batch_results |-> batch_results]
    ELSE LET p == process_query(queries[i], PlannedFor(queries[i]),
                                get_function_schemas(registry))
         IN  IF ~execute
             THEN BatchFrom(queries, execute, i + 1, es,
                            Append(batch_results, QuerySuccess(queries[i], p, None)))
             ELSE BatchFrom(queries, execute, i + 1, RunPlan(es, p),
                            Append(batch_results,
                                   QuerySuccess(queries[i], p, RunPlan(es, p).returned)))

\* what process_batch_queries returns; success_rate is left out
BatchResult(batch_results) ==
    [success |-> TRUE,
     batch_results |-> batch_results,
     summary |->
        [total_queries |-> Len(batch_results),
         successful |-> Cardinality({n \in DOMAIN batch_results :
                                        batch_results[n].success}),
         failed |-> Cardinality({n \in DOMAIN batch_results :
                                    ~batch_results[n].success})]]

\* PipelineManager.process_batch_queries, for queries whose plans do not suspend
process_batch_queries(t, queries, execute) ==
    /\ pc[t] # "awaiting"
    /\ UNCHANGED <<validation, initialized, repaired, lifecycle>>
    /\ IF ~initialized
       THEN /\ query_result' = [query_result EXCEPT ![t] = NotInitialized]
            /\ UNCHANGED <<engine_vars, nplanned>>
       ELSE /\ \A n \in DOMAIN queries :
                  ~Suspends(process_query(queries[n], PlannedFor(queries[n]),
                                          get_function_schemas(registry)))
            /\ LET run == BatchFrom(queries, execute, 1,
                                    [ctx |-> execution_context,
                                     history |-> results_history,
                                     clock |-> clock, nruns |-> nruns,
                                     plan |-> plan[t], results |-> results[t],
                                     idx |-> idx[t], returned |-> returned[t]],
                                    <<>>)
                   ran == execute /\ queries # <<>>
               IN  /\ query_result' =
                         [query_result EXCEPT ![t] = BatchResult(run.batch_results)]
                   /\ nplanned' = nplanned + Len(queries)
                   /\ execution_context' = run.es.ctx
                   /\ results_history' = run.es.history
                   /\ clock' = run.es.clock
                   /\ nruns' = run.es.nruns
                   /\ plan' = [plan EXCEPT ![t] = run.es.plan]
                   /\ results' = [results EXCEPT ![t] = run.es.results]
                   /\ idx' = [idx EXCEPT ![t] = run.es.idx]
                   /\ returned' = [returned EXCEPT ![t] = run.es.returned]
                   /\ pc' = [pc EXCEPT ![t] = IF ran THEN "returned" ELSE @]
                   /\ method' = [method EXCEPT ![t] = IF ran THEN "execute_plan" ELSE @]
                   /\ processed' = [processed EXCEPT ![t] = IF ran THEN EmptyDict ELSE @]
                   /\ invoked' = [invoked EXCEPT ![t] = IF ran THEN <<>> ELSE @]
                   /\ UNCHANGED registry

\* PipelineManager.shutdown: the engine's history and context are cleared
shutdown ==
    /\ lifecycle' = [call |-> "shutdown"]
    /\ initialized' = FALSE
    /\ results_history' = <<>>
    /\ execution_context' = EmptyDict
    /\ UNCHANGED <<registry, clock, nruns, pc, method, plan, idx, results, processed,
                   returned, invoked, validation, repaired, nplanned, query_result>>

\* One caller drives a manager: initialize() and shutdown() in any order,
\* single queries and batches in between, up to MaxQueries planned queries.
NextLifecycle ==
    \/ \E ok \in BOOLEAN : initialize(ok)
    \/ Quiescent /\ shutdown
    \/ /\ nplanned < MaxQueries
       /\ \E query \in Queries : \E execute \in BOOLEAN : \E simulate \in BOOLEAN :
             PipelineManager_process_query("t1", query, PlannedFor(query),
                                           execute, simulate)
    \/ \E queries \in UNION {[1..n -> Queries] : n \in 0..MaxBatchLen} :
          /\ nplanned + Len(queries) <= MaxQueries
          /\ \E execute \in BOOLEAN : process_batch_queries("t1", queries, execute)

SpecLifecycle == Init /\ [][NextLifecycle]_vars

\* a freshly constructed engine serves one invocation of one caller
Next ==
    \/ /\ pc["t1"] = "idle" /\ UNCHANGED pipeline_vars
       /\ \E p \in PlanSet : execute_plan("t1", p)
    \/ /\ UNCHANGED pipeline_vars
       /\ \E outcome \in OpOutcomes : OperationCompletes("t1", outcome)
    \/ /\ pc["t1"] = "idle" /\ UNCHANGED pipeline_vars
       /\ \E p \in PlanSet : simulate_execution("t1", p)

Spec == Init /\ [][Next]_vars

(***************************************************************************)
(* Vocabulary of the properties.                                           *)
(***************************************************************************)
\* task t holds an ExecutionResult returned by method m
Returned(t, m) ==
    pc[t] = "returned" /\ method[t] = m /\ "execution_summary" \in DOMAIN returned[t]

\* every entry of the plan is a call mapping
WellFormed(p) ==
    \A n \in DOMAIN FunctionCalls(p) : IsMap(FunctionCalls(p)[n])

\* the call at (one-based) position n of the plan of task t
CallAt(t, n) == FunctionCalls(plan[t])[n].m

\* result r carries the error text e
ErrorIs(r, e) == "error" \in DOMAIN r /\ r.error = e

\* position n of result list rs holds a failed result of a critical call
CriticalFailureAt(t, rs, n) ==
    ~GetSuccess(rs[n]) /\ CallGet(CallAt(t, n), "function_name", None).t = "name"
    /\ CallGet(CallAt(t, n), "function_name", None).n \in critical_functions

(***************************************************************************)
(* C1. Every ExecutionResult returned by execute_plan or simulate_execution*)
(* has successful_functions + failed_functions = total_functions =         *)
(* len(results).                                                           *)
(***************************************************************************)
C1_SummaryAddsUp ==
    \A t \in Tasks :
        "execution_summary" \in DOMAIN returned[t] =>
            LET s == returned[t].execution_summary
            IN  /\ s.successful_functions + s.failed_functions = s.total_functions
                /\ s.total_functions = Len(returned[t].results)

\* a run that returned a success, a reported failure and a result without a
\* success field
C1_Witness ==
    \E t \in Tasks :
        /\ Returned(t, "execute_plan")
        /\ Len(returned[t].results) = 3
        /\ returned[t].execution_summary.successful_functions = 1
        /\ \E n \in 1..3 : "success" \notin DOMAIN returned[t].results[n]
        /\ \E n \in 1..3 : "success" \in DOMAIN returned[t].results[n]
                           /\ ~returned[t].results[n].success

(***************************************************************************)
(* C2. In an execute_plan run over a plan of n >= 1 calls: if k is the     *)
(* smallest index of a failed critical call, the run records exactly the   *)
(* results 0..k and resolves, invokes and records nothing after k; if no   *)
(* critical call fails, it records n results.                              *)
(***************************************************************************)
C2_CriticalShortCircuit ==
    \A t \in Tasks :
        (Returned(t, "execute_plan") /\ WellFormed(plan[t])
         /\ Len(FunctionCalls(plan[t])) >= 1) =>
            LET rs == returned[t].results
                failing == {n \in DOMAIN rs : CriticalFailureAt(t, rs, n)}
            IN  IF failing # {}
                THEN LET k == CHOOSE n \in failing : \A h \in failing : n <= h
                     IN  /\ Len(rs) = k
                         /\ \A e \in DOMAIN invoked[t] : invoked[t][e].call_index < k
                         /\ DictKeys(execution_context) = {ContextKey(i) : i \in 0..(k - 1)}
                ELSE Len(rs) = Len(FunctionCalls(plan[t]))

\* a three-call run cut short after its second call, whose first call failed
\* without being critical
C2_Witness ==
    \E t \in Tasks :
        /\ Returned(t, "execute_plan")
        /\ Len(FunctionCalls(plan[t])) = 3
        /\ WellFormed(plan[t])
        /\ Len(returned[t].results) = 2
        /\ ~GetSuccess(returned[t].results[1])
        /\ CriticalFailureAt(t, returned[t].results, 2)

(***************************************************************************)
(* C3. In every execute_plan run, results[j].call_index = j and results[j] *)
(* carries the function_name of plan.function_calls[j]: the indices are    *)
(* 0, 1, 2, ... in plan order, without gap or repetition.                  *)
(***************************************************************************)
C3_IndicesInPlanOrder ==
    \A t \in Tasks :
        method[t] = "execute_plan" =>
            /\ \A n \in DOMAIN results[t] :
                  /\ results[t][n].call_index = n - 1
                  /\ results[t][n].function_name
                        = CallGet(CallAt(t, n), "function_name", None)
            /\ "execution_summary" \in DOMAIN returned[t] /\ pc[t] = "returned" =>
                  \A n \in DOMAIN returned[t].results :
                      /\ returned[t].results[n].call_index = n - 1
                      /\ returned[t].results[n].function_name
                            = CallGet(CallAt(t, n), "function_name", None)

\* a run that returned three results: one of an operation that returned, one
\* of an operation that raised, one of a name that was not found
C3_Witness ==
    \E t \in Tasks :
        /\ Returned(t, "execute_plan")
        /\ Len(returned[t].results) = 3
        /\ \E n \in 1..3 : "parameters_used" \in DOMAIN returned[t].results[n]
        /\ \E n \in 1..3 : ErrorIs(returned[t].results[n], "boom")
        /\ \E n \in 1..3 : ErrorIs(returned[t].results[n], "Function not found")

(***************************************************************************)
(* C4 as stated: the ExecutionResult of execute_plan has success true if   *)
(* and only if every CallResult of its results has success true.           *)
(***************************************************************************)
C4_Original ==
    \A t \in Tasks :
        Returned(t, "execute_plan") =>
            (returned[t].success
                <=> \A n \in DOMAIN returned[t].results :
                        GetSuccess(returned[t].results[n]))

(***************************************************************************)
(* C4 as amended: the ExecutionResult of execute_plan has success true if  *)
(* and only if its results list is not empty and every CallResult in it    *)
(* has success true.                                                       *)
(***************************************************************************)
C4_SuccessIffAllSucceeded ==
    \A t \in Tasks :
        Returned(t, "execute_plan") =>
            (returned[t].success
                <=> /\ returned[t].results # <<>>
                    /\ \A n \in DOMAIN returned[t].results :
                           GetSuccess(returned[t].results[n]))

\* a run of two calls that both succeeded, reported as a success
C4_Witness ==
    \E t \in Tasks :
        /\ Returned(t, "execute_plan")
        /\ Len(returned[t].results) = 2
        /\ returned[t].success
        /\ \A n \in 1..2 : GetSuccess(returned[t].results[n])

(***************************************************************************)
(* C5. For a plan with zero calls (function_calls empty or absent)         *)
(* execute_plan returns success false, an empty results list and the       *)
(* message that there were no function calls to execute, and invokes no    *)
(* operation.                                                              *)
(***************************************************************************)
C5_EmptyPlan ==
    \A t \in Tasks :
        (pc[t] = "returned" /\ method[t] = "execute_plan"
         /\ FunctionCalls(plan[t]) = <<>>) =>
            /\ "execution_summary" \in DOMAIN returned[t]
            /\ returned[t].success = FALSE
            /\ returned[t].results = <<>>
            /\ returned[t].message = "No function calls to execute"
            /\ invoked[t] = <<>>

\* execute_plan has returned for a plan that has no function_calls field
C5_Witness ==
    \E t \in Tasks :
        /\ Returned(t, "execute_plan")
        /\ "function_calls" \notin DOMAIN plan[t]

(***************************************************************************)
(* Vocabulary of the properties on parameter resolution.                   *)
(***************************************************************************)
\* the parameter value "{{result_<i>}}"
RefTo(i) == <<"{", "{">> \o ContextKey(i) \o <<"}", "}">>

\* the parameters mapping of the call that invocation e of task t belongs to
RawParameters(t, e) == CallAt(t, invoked[t][e].call_index + 1).parameters.d

\* the call of invocation e of task t was given value v under key
ParameterIs(t, e, key, v) ==
    key \in DOMAIN RawParameters(t, e) /\ RawParameters(t, e)[key] = v

\* the payload of a recorded CallResult: its data field if it has one, else
\* the whole CallResult
Payload(r) == IF "data" \in DOMAIN r THEN r.data ELSE [t |-> "map", m |-> r]

C7_PreviousIsLatest ==
    \A t \in Tasks :
        method[t] = "execute_plan" =>
            \A e \in DOMAIN invoked[t] :
                \A key \in DOMAIN RawParameters(t, e) :
                    (invoked[t][e].call_index >= 1
                     /\ RawParameters(t, e)[key] = Str(RefPrevious)) =>
                        invoked[t][e].kwargs[key]
                            = Payload(results[t][invoked[t][e].call_index])

(***************************************************************************)
(* C8 as stated: a reference result_<i>.<path> walks the dotted path into  *)
(* the CallResult recorded at index i; result_0.data yields the data field *)
(* of result 0, and None only when a segment of the path is missing.       *)
(***************************************************************************)
C8_DottedPath ==
    \A t \in Tasks :
        method[t] = "execute_plan" =>
            \A e \in DOMAIN invoked[t] :
                \A key \in DOMAIN RawParameters(t, e) :
                    (invoked[t][e].call_index >= 1
                     /\ RawParameters(t, e)[key] = Str(RefResult0Data)) =>
                        invoked[t][e].kwargs[key]
                            = IF "data" \in DOMAIN results[t][1]
                              THEN results[t][1].data
                              ELSE None

(***************************************************************************)
(* C9 as stated: the reference result_<i>, on a context that holds a       *)
(* CallResult at index i, yields the whole stored CallResult mapping, with *)
(* all of its fields.                                                      *)
(***************************************************************************)
C9_WholeResult ==
    \A t \in Tasks :
        method[t] = "execute_plan" =>
            \A e \in DOMAIN invoked[t] :
                \A key \in DOMAIN RawParameters(t, e) :
                    \A i \in 0..(invoked[t][e].call_index - 1) :
                        RawParameters(t, e)[key] = Str(RefTo(i)) =>
                            invoked[t][e].kwargs[key]
                                = [t |-> "map", m |-> results[t][i + 1]]

(***************************************************************************)
(* C10. A reference that cannot be resolved ({{result_i}} with no result   *)
(* recorded at index i, {{output_from_previous}} in call 0) never aborts   *)
(* the run: the parameter is None, the call is invoked with it, its        *)
(* outcome is recorded and the remaining calls are processed as usual.     *)
(***************************************************************************)
\* value v, given to the call at index j, refers to a result not recorded yet
Unresolvable(v, j) ==
    \/ \E i \in j..(MaxPlanLen + 1) : v = Str(RefTo(i))
    \/ j = 0 /\ v = Str(RefPrevious)

\* the keys under which the call at position n holds an unresolvable
\* reference, if that call names a registered operation and has a parameters
\* mapping
UnresolvedKeys(t, n) ==
    IF /\ get_function(registry, CallGet(CallAt(t, n), "function_name", None)).found
       /\ CallGet(CallAt(t, n), "parameters", Dict(EmptyDict)).t = "dict"
    THEN {key \in DOMAIN CallGet(CallAt(t, n), "parameters", Dict(EmptyDict)).d :
            Unresolvable(CallAt(t, n).parameters.d[key], n - 1)}
    ELSE {}

C10_UnresolvedIsNone ==
    \A t \in Tasks :
        (method[t] = "execute_plan" /\ WellFormed(plan[t])) =>
            /\ \A e \in DOMAIN invoked[t] :
                  \A key \in DOMAIN RawParameters(t, e) :
                      Unresolvable(RawParameters(t, e)[key], invoked[t][e].call_index)
                          => invoked[t][e].kwargs[key] = None
            /\ \A n \in DOMAIN results[t] :
                  \A key \in UnresolvedKeys(t, n) :
                      \E e \in DOMAIN invoked[t] :
                          /\ invoked[t][e].call_index = n - 1
                          /\ invoked[t][e].kwargs[key] = None
            /\ (pc[t] = "returned" /\ FunctionCalls(plan[t]) # <<>>
                /\ \E n \in DOMAIN FunctionCalls(plan[t]) :
                      UnresolvedKeys(t, n) # {}) =>
                  /\ "execution_summary" \in DOMAIN returned[t]
                  /\ returned[t].message = "Execution completed"
                  /\ returned[t].results = results[t]
                  /\ Len(results[t]) < Len(FunctionCalls(plan[t])) =>
                        CriticalFailureAt(t, results[t], Len(results[t]))

\* a run of three calls went to its end although call 0 referred to the
\* previous output and call 1 to its own result: both were invoked with None
C10_Witness ==
    \E t \in Tasks :
        /\ Returned(t, "execute_plan")
        /\ Len(returned[t].results) = 3
        /\ Len(invoked[t]) = 3
        /\ ParameterIs(t, 1, "data", Str(RefPrevious))
        /\ ParameterIs(t, 2, "data", Str(RefTo(1)))
        /\ invoked[t][1].kwargs.data = None
        /\ invoked[t][2].kwargs.data = None

(***************************************************************************)
(* C11. If the operation invoked for call i raises an exception,           *)
(* execute_plan does not raise: call i is recorded as a CallResult with    *)
(* success false and the exception text as error, and, unless the call is  *)
(* critical, call i+1 is executed (invoked, or recorded without an         *)
(* invocation).  Stated for plans whose entries are all call mappings.     *)
(***************************************************************************)
\* task t, awaiting the operation of call idx[t], sees it raise in this step
Raises(t, outcome) == outcome.kind = "raise" /\ OperationCompletes(t, outcome)

C11_RaiseIsRecorded ==
    [][\A outcome \in OpOutcomes :
          (Raises("t1", outcome) /\ WellFormed(plan["t1"])) =>
              LET i == idx["t1"]
                  r == results'["t1"][i + 1]
              IN  /\ Len(results'["t1"]) >= i + 1
                  /\ r.success = FALSE
                  /\ r.error = outcome.error
                  /\ r.call_index = i
                  /\ pc'["t1"] = "returned" =>
                        /\ "execution_summary" \in DOMAIN returned'["t1"]
                        /\ returned'["t1"].results = results'["t1"]
                  /\ (~_is_critical_function(CallAt("t1", i + 1))
                      /\ i + 1 < Len(FunctionCalls(plan["t1"]))) =>
                        \/ Len(results'["t1"]) >= i + 2
                        \/ pc'["t1"] = "awaiting" /\ idx'["t1"] = i + 1]_vars

\* the operation of call 0, not critical, raised; call 1 was invoked after it
\* and the run returned both results
C11_Witness ==
    \E t \in Tasks :
        /\ Returned(t, "execute_plan")
        /\ Len(returned[t].results) = 2
        /\ ErrorIs(returned[t].results[1], "boom")
        /\ ~returned[t].results[1].success
        /\ ~_is_critical_function(CallAt(t, 1))
        /\ Len(invoked[t]) = 2
        /\ invoked[t][2].call_index = 1

(***************************************************************************)
(* C12 as stated: when two execute_plan invocations on the one engine      *)
(* interleave at their awaits, each invocation resolves its references     *)
(* only against the CallResults it recorded itself, and while it is        *)
(* suspended the context still holds, under result_0 .. result_<i-1>, the  *)
(* results it has recorded so far.                                         *)
(***************************************************************************)
C12_ContextNotShared ==
    \A t \in Tasks :
        method[t] = "execute_plan" =>
            /\ \A e \in DOMAIN invoked[t] :
                  \A key \in DOMAIN RawParameters(t, e) :
                      \A i \in 0..(invoked[t][e].call_index - 1) :
                          RawParameters(t, e)[key] = Str(RefTo(i)) =>
                              invoked[t][e].kwargs[key] = Payload(results[t][i + 1])
            /\ pc[t] = "awaiting" =>
                  \A n \in DOMAIN results[t] :
                      /\ DictHas(execution_context, ContextKey(n - 1))
                      /\ DictGet(execution_context, ContextKey(n - 1)) = results[t][n]

(***************************************************************************)
(* C13. For a list of calls of which N are malformed (no function_name, an *)
(* unknown function, no parameters, a required parameter missing),         *)
(* validate_function_calls, when it returns, returns an error list with at *)
(* least N entries, one at least for each malformed call, and is_valid     *)
(* false if N >= 1: it does not stop at the first failing call.            *)
(***************************************************************************)
\* the names of the required parameters of the operation registered as name
RequiredOf(name) ==
    LET sig == Signature[DictGet(registry.functions, name).impl]
    IN  {sig[k].name : k \in {h \in DOMAIN sig : sig[h].required}}

\* entry call of a call list is malformed
Malformed(call) ==
    \/ call.t # "map"
    \/ "function_name" \notin DOMAIN call.m
    \/ call.m.function_name.t # "name"
    \/ ~DictHas(registry.functions, call.m.function_name.n)
    \/ "parameters" \notin DOMAIN call.m
    \/ call.m.parameters.t # "dict"
    \/ ~(RequiredOf(call.m.function_name.n) \subseteq DOMAIN call.m.parameters.d)

OperationPart(r) ==
    [f \in DOMAIN r \cap {"success", "data", "message", "error"} |-> r[f]]

\* in the runs of tasks t and u the operations of the calls before call
\* index c behaved identically
SameBehaviour(t, u, c) ==
    /\ Len(results[t]) >= c /\ Len(results[u]) >= c
    /\ \A n \in 1..c : OperationPart(results[t][n]) = OperationPart(results[u][n])

C14_RerunResolvesAlike ==
    \A t \in Tasks : \A u \in Tasks :
        (method[t] = "execute_plan" /\ method[u] = "execute_plan"
         /\ plan[t] = plan[u]) =>
            /\ \A e \in DOMAIN invoked[t] : \A g \in DOMAIN invoked[u] :
                  (invoked[t][e].call_index = invoked[u][g].call_index
                   /\ SameBehaviour(t, u, invoked[t][e].call_index)) =>
                      invoked[t][e].kwargs = invoked[u][g].kwargs
            /\ \A n \in DOMAIN results[t] \cap DOMAIN results[u] :
                  (SameBehaviour(t, u, n - 1)
                   /\ "parameters_used" \in DOMAIN results[t][n]
                   /\ "parameters_used" \in DOMAIN results[u][n]) =>
                      results[t][n].parameters_used = results[u][n].parameters_used

\* after an earlier run, the chain plan was run by both tasks with the same
\* operation behaviour, and call 0 of both runs was given None although the
\* earlier run had left results in the context
C14_Witness ==
    /\ nruns = 3
    /\ Returned("t1", "execute_plan") /\ Returned("t2", "execute_plan")
    /\ plan["t1"] = plan["t2"]
    /\ plan["t1"].plan = "chain"
    /\ Len(results_history) = 3
    /\ Len(results["t1"]) = 2
    /\ SameBehaviour("t1", "t2", 2)
    /\ invoked["t1"][1].kwargs.data = None
    /\ invoked["t2"][1].kwargs.data = None
    /\ invoked["t1"][2].kwargs = invoked["t2"][2].kwargs

(***************************************************************************)
(* C15 as stated: whenever execute_plan (on any plan, an empty one and one *)
(* that ends in a top-level error included) or simulate_execution returns  *)
(* result R, the execution history has exactly one more entry than before, *)
(* its last entry is R and the earlier entries are unchanged.              *)
(***************************************************************************)
\* an engine method invoked by task t returns an ExecutionResult in this step
ReturnsInStep(t) ==
    /\ pc'[t] = "returned"
    /\ pc[t] = "awaiting" \/ (nruns' = nruns + 1 /\ returned'[t] # returned[t])
    /\ "execution_summary" \in DOMAIN returned'[t]

C15_HistoryAppended ==
    [][\A t \in Tasks :
          ReturnsInStep(t) => results_history' = Append(results_history, returned'[t])]_vars

(***************************************************************************)
(* C16 as stated: register of an operation whose name is already in the    *)
(* registry is rejected: the operation registered under that name is not   *)
(* overwritten, and the name table and the category listings stay as they  *)
(* were.                                                                   *)
(***************************************************************************)
C16_DuplicateRejected ==
    [][\A function \in Registrable :
          (register_function(function) /\ DictHas(registry.functions, function.name))
              => registry' = registry]_vars

(***************************************************************************)
(* C17 as stated: when the validation of the planned calls fails and the   *)
(* repair runs, the repaired plan is validated again, so that the valid    *)
(* flag and the error list of the plan that reaches the engine are those   *)
(* of the plan as repaired, not of the plan as first produced.             *)
(***************************************************************************)
C17_RepairedPlanRevalidated ==
    \A t \in Tasks :
        (method[t] \in {"execute_plan", "simulate_execution"}
         /\ "valid" \in DOMAIN plan[t] /\ "errors" \in DOMAIN plan[t]) =>
            LET again == validate_function_calls(FunctionCalls(plan[t]),
                                                 get_function_schemas(registry))
            IN  /\ ~again.raised
                /\ plan[t].valid = again.is_valid
                /\ plan[t].errors = again.errors

(***************************************************************************)
(* C18. simulate_execution on a plan of n >= 1 calls returns exactly n     *)
(* CallResults in plan order, result i with call_index i, the call's       *)
(* function_name, success true and simulated true, with overall success    *)
(* true; it invokes no operation and does not depend on the registry (an   *)
(* unknown name is simulated like any other).  Stated for plans whose      *)
(* entries are all call mappings.                                          *)
(***************************************************************************)
C18_SimulationMirrorsPlan ==
    \A t \in Tasks :
        (pc[t] = "returned" /\ method[t] = "simulate_execution"
         /\ WellFormed(plan[t]) /\ Len(FunctionCalls(plan[t])) >= 1) =>
            /\ "execution_summary" \in DOMAIN returned[t]
            /\ returned[t].success = TRUE
            /\ Len(returned[t].results) = Len(FunctionCalls(plan[t]))
            /\ \A n \in DOMAIN returned[t].results :
                  LET r == returned[t].results[n]
                  IN  /\ r.call_index = n - 1
                      /\ r.function_name
                            = CallGet(CallAt(t, n), "function_name", Name("unknown"))
                      /\ r.success = TRUE
                      /\ r.simulated = TRUE
            /\ invoked[t] = <<>>

\* a simulated plan of three calls, one of which names a function that is
\* not registered
C18_Witness ==
    \E t \in Tasks :
        /\ Returned(t, "simulate_execution")
        /\ Len(returned[t].results) = 3
        /\ \E n \in 1..3 :
              /\ returned[t].results[n].function_name = Name("no_such_function")
              /\ returned[t].results[n].success
        /\ \E n \in 1..3 : returned[t].results[n].function_name = Name("read_csv")

(***************************************************************************)
(* C19. No error crosses the boundary of the engine or of the manager.     *)
(* Whatever the plan, execute_plan never raises: when it returns it        *)
(* returns an ExecutionResult, with success false, no results and the      *)
(* error message if an entry that is no mapping was reached; and           *)
(* PipelineManager.process_query returns a mapping with a success field.   *)
(* Both return in the end, provided each awaited operation returns or      *)
(* raises.                                                                 *)
(***************************************************************************)
\* the run of task t reached an entry of its plan that is no mapping: the
\* entry after the calls recorded, the loop not having been left by break
FaultReached(t) ==
    /\ Len(results[t]) < Len(FunctionCalls(plan[t]))
    /\ ~IsMap(FunctionCalls(plan[t])[Len(results[t]) + 1])
    /\ results[t] # <<>> => ~CriticalFailureAt(t, results[t], Len(results[t]))

\* what the methods have returned is structured
StructuredResults ==
    \A t \in Tasks :
        /\ (pc[t] = "returned" /\ method[t] = "execute_plan") =>
              /\ "execution_summary" \in DOMAIN returned[t]
              /\ "success" \in DOMAIN returned[t]
              /\ FaultReached(t) =>
                    /\ returned[t].success = FALSE
                    /\ returned[t].results = <<>>
                    /\ returned[t].message = "Execution error"
        /\ query_result[t] \notin {NoResult, Pending} =>
              /\ "success" \in DOMAIN query_result[t]
              /\ query_result[t].success =>
                    \/ query_result[t].execution_result = None
                    \/ "execution_summary" \in DOMAIN query_result[t].execution_result
              /\ ~query_result[t].success => "error" \in DOMAIN query_result[t]

C19_NoErrorCrossesBoundary ==
    /\ []StructuredResults
    /\ \A t \in Tasks : (pc[t] = "awaiting") ~> (pc[t] = "returned")
    /\ \A t \in Tasks : (query_result[t] = Pending) ~> (query_result[t] # Pending)

\* execute_plan invoked the first call of a plan, then reached an entry
\* that is no mapping, and returned the top-level failure
C19_Witness ==
    \E t \in Tasks :
        /\ Returned(t, "execute_plan")
        /\ Len(invoked[t]) = 1
        /\ FaultReached(t)
        /\ returned[t].message = "Execution error"
        /\ ~returned[t].success

(***************************************************************************)
(* C20 as stated: a parameter value {{previous_result}}, the reference     *)
(* form of the planner's prompt, resolves in call j >= 1 to the output of  *)
(* call j-1: its data field if it has one, else the whole CallResult.      *)
(***************************************************************************)
C20_PromptReference ==
    \A t \in Tasks :
        method[t] = "execute_plan" =>
            \A e \in DOMAIN invoked[t] :
                \A key \in DOMAIN RawParameters(t, e) :
                    (invoked[t][e].call_index >= 1
                     /\ RawParameters(t, e)[key] = Str(RefPreviousResult)) =>
                        invoked[t][e].kwargs[key]
                            = Payload(results[t][invoked[t][e].call_index])

(***************************************************************************)
(* C21. In an execute_plan run (of a plan with calls, by the one caller of *)
(* the engine), once j calls have been recorded the execution context      *)
(* holds exactly the entries result_0 .. result_(j-1), in this order, the  *)
(* entry of index i being results[i], whether call i failed or succeeded;  *)
(* and a step of the run only adds entries: those present stay as they are.*)
(***************************************************************************)
\* the context holds exactly the results recorded so far by the run of t
ContextMirrorsResults(t) ==
    /\ Len(execution_context) = Len(results[t])
    /\ \A n \in DOMAIN results[t] :
          execution_context[n] = [k |-> ContextKey(n - 1), v |-> results[t][n]]

\* a step taken while the run of t is under way keeps every entry
ContextOnlyGrows(t) ==
    pc[t] = "awaiting" =>
        /\ Len(execution_context') >= Len(execution_context)
        /\ SubSeq(execution_context', 1, Len(execution_context)) = execution_context

InProgress(t) ==
    {e \in DOMAIN invoked[t] : invoked[t][e].call_index >= Len(results[t])}

C22_StrictlySequential ==
    \A t \in {"t1"} :
        (method[t] = "execute_plan" /\ FunctionCalls(plan[t]) # <<>>) =>
            /\ Cardinality(InProgress(t)) <= 1
            /\ (InProgress(t) # {}) <=> (pc[t] = "awaiting")
            /\ \A e, f \in DOMAIN invoked[t] :
                  e < f => invoked[t][e].call_index < invoked[t][f].call_index
            /\ \A e \in InProgress(t) :
                  /\ invoked[t][e].call_index = Len(results[t])
                  /\ ContextMirrorsResults(t)
                  /\ invoked[t][e].kwargs
                        = _process_parameters(execution_context, RawParameters(t, e))

\* the third call of a plan is in progress after two recorded calls, one of
\* them invoked before it, and its parameter was resolved from an earlier result
C22_Witness ==
    /\ pc["t1"] = "awaiting"
    /\ Len(results["t1"]) = 2
    /\ Len(invoked["t1"]) = 2
    /\ invoked["t1"][2].call_index = 2
    /\ \E e \in DOMAIN invoked["t1"] :
          \E key \in DOMAIN invoked["t1"][e].kwargs :
              /\ IsReference(RawParameters("t1", e)[key])
              /\ invoked["t1"][e].kwargs[key] # None

(***************************************************************************)
(* C23 as stated: simulate_execution on a plan with zero calls returns an  *)
(* ExecutionResult with success == false.                                  *)
(***************************************************************************)
C23_EmptySimulationUnsuccessful ==
    \A t \in Tasks :
        (Returned(t, "simulate_execution") /\ FunctionCalls(plan[t]) = <<>>)
            => returned[t].success = FALSE

(***************************************************************************)
(* C24 as stated: every CallResult in the results of an execute_plan run,  *)
(* whether the operation succeeded, reported success == false, raised, or  *)
(* was not found in the registry, carries the four fields added by the     *)
(* engine: function_name, call_index, description and parameters_used.     *)
(***************************************************************************)
EngineFields == {"function_name", "call_index", "description", "parameters_used"}

C24_EngineFieldsEverywhere ==
    \A t \in Tasks :
        Returned(t, "execute_plan") =>
            \A n \in DOMAIN returned[t].results :
                EngineFields \subseteq DOMAIN returned[t].results[n]

(***************************************************************************)
(* C25. Parameter processing treats a value as a reference only if it is a *)
(* string that starts with "{{" and ends with "}}" (and every such string  *)
(* is resolved); any other value is handed to the operation unchanged      *)
(* under the same key, and resolution leaves the plan's own parameter      *)
(* mapping as it was.                                                      *)
(***************************************************************************)
\* v is a string wrapped in the delimiter pair
Wrapped(v) ==
    /\ v.t = "str"
    /\ Len(v.s) >= 2
    /\ v.s[1] = "{" /\ v.s[2] = "{"
    /\ v.s[Len(v.s) - 1] = "}" /\ v.s[Len(v.s)] = "}"

LiteralsPassThrough ==
    \A t \in Tasks :
        method[t] = "execute_plan" =>
            \A e \in DOMAIN invoked[t] :
                /\ DOMAIN invoked[t][e].kwargs = DOMAIN RawParameters(t, e)
                /\ \A key \in DOMAIN RawParameters(t, e) :
                      IF Wrapped(RawParameters(t, e)[key])
                      THEN e \in InProgress(t) =>
                              invoked[t][e].kwargs[key]
                                 = _resolve_reference(
                                      execution_context,
                                      ReferenceText(RawParameters(t, e)[key]))
                      ELSE invoked[t][e].kwargs[key] = RawParameters(t, e)[key]

\* the plan of a run under way stays as it was given
PlanKept == \A t \in Tasks : pc[t] = "awaiting" => plan'[t] = plan[t]

C25_OnlyWrappedStringsResolve ==
    /\ []LiteralsPassThrough
    /\ [][PlanKept]_vars

\* an operation was invoked with a string that holds a reference inside other
\* text, and one with a value that is no string; both arrived unchanged
C25_Witness ==
    /\ \E e \in DOMAIN invoked["t1"] :
          /\ invoked["t1"][e].call_index = 1
          /\ RawParameters("t1", e).data \in {Str(TextWithRef), Int_(3)}
          /\ invoked["t1"][e].kwargs.data = RawParameters("t1", e).data
    /\ execution_context # <<>>

(***************************************************************************)
(* C26. The repairer only adds missing defaults.  When _fix_common_issues  *)
(* returns, every send_email call has to_email, subject and body and every *)
(* read_csv or read_file call has file_path; each parameter that was       *)
(* present keeps its value; a call of any other operation gets no value;   *)
(* the calls are as many as before and in the same order; and repairing    *)
(* the repaired plan changes nothing.                                      *)
(***************************************************************************)
\* the parameter names the repairer fills in, per operation name
FilledIn(function_name) ==
    IF function_name = Name("send_email") THEN {"to_email", "subject", "body"}
    ELSE IF function_name \in {Name("read_csv"), Name("read_file")} THEN {"file_path"}
    ELSE {}

\* the parameters of a call before the repair; none when the field is absent
ParametersBefore(call) ==
    IF "parameters" \in DOMAIN call THEN call.parameters ELSE Dict(EmptyDict)

\* call after is call before with nothing but missing defaults added
OnlyDefaultsAdded(before, after) ==
    /\ DOMAIN after = DOMAIN before \cup {"parameters"}
    /\ \A f \in DOMAIN before \ {"parameters"} : after[f] = before[f]
    /\ LET function_name == CallGet(before, "function_name", Name(""))
           old == ParametersBefore(before)
       IN  IF FilledIn(function_name) = {}
           THEN after.parameters = old
           ELSE /\ after.parameters.t = "dict"
                /\ DOMAIN after.parameters.d = DOMAIN old.d \cup FilledIn(function_name)
                /\ \A key \in DOMAIN old.d : after.parameters.d[key] = old.d[key]

NotRegistered(t, n) ==
    /\ IsMap(FunctionCalls(plan[t])[n])
    /\ LET function_name == CallGet(CallAt(t, n), "function_name", None)
       IN  function_name.t = "name" => function_name.n \notin DictKeys(registry.functions)

C27_UnknownFunctionRecorded ==
    \A t \in Tasks :
        method[t] = "execute_plan" =>
            \A n \in DOMAIN results[t] :
                NotRegistered(t, n) =>
                    /\ ErrorIs(results[t][n], "Function not found")
                    /\ results[t][n].success = FALSE
                    /\ "parameters_used" \notin DOMAIN results[t][n]
                    /\ \A e \in DOMAIN invoked[t] : invoked[t][e].call_index # n - 1
                    /\ IF _is_critical_function(CallAt(t, n))
                       THEN Len(results[t]) = n /\ pc[t] = "returned"
                       ELSE (n < Len(FunctionCalls(plan[t]))
                             /\ IsMap(FunctionCalls(plan[t])[n + 1])) =>
                                \/ Len(results[t]) > n
                                \/ pc[t] = "awaiting" /\ idx[t] = n

\* a run recorded a call of an unregistered name, not critical, and went on
\* to invoke the call after it
C27_Witness ==
    /\ pc["t1"] = "awaiting"
    /\ Len(results["t1"]) = 1
    /\ NotRegistered("t1", 1)
    /\ ~_is_critical_function(CallAt("t1", 1))
    /\ ErrorIs(results["t1"][1], "Function not found")
    /\ invoked["t1"] # <<>>

(***************************************************************************)
(* C28 as stated: after any sequence of register calls, for every category *)
(* c, get_functions_by_category(c) returns exactly the registered          *)
(* operations whose category is c, each exactly once, in registration      *)
(* order; and every name listed under a category is a key of the name      *)
(* table.                                                                  *)
(***************************************************************************)
\* position of the operation named name in the name table
TablePosition(name) == CHOOSE n \in DOMAIN registry.functions : registry.functions[n].k = name

C28_CategoryListingExact ==
    /\ \A category \in {function.category : function \in Registrable} :
          LET listing == get_functions_by_category(registry, category)
          IN  /\ {listing[n] : n \in DOMAIN listing}
                    = {registry.functions[n].v : n \in DOMAIN registry.functions}
                         \cap {function \in Registrable : function.category = category}
              /\ \A i, j \in DOMAIN listing : i # j => listing[i] # listing[j]
              /\ \A i, j \in DOMAIN listing :
                    i < j => TablePosition(listing[i].name) < TablePosition(listing[j].name)
    /\ \A c \in DOMAIN registry.categories :
          \A n \in DOMAIN registry.categories[c].v :
              DictHas(registry.functions, registry.categories[c].v[n])

Submitted(t) ==
    \/ \E query \in Queries : \E execute \in BOOLEAN : \E simulate \in BOOLEAN :
          PipelineManager_process_query(t, query, PlannedFor(query), execute, simulate)
    \/ \E queries \in UNION {[1..n -> Queries] : n \in 0..MaxBatchLen} :
          \E execute \in BOOLEAN : process_batch_queries(t, queries, execute)

RefusedWhenNotInitialized ==
    (~initialized /\ Submitted("t1")) =>
        /\ query_result'["t1"] = NotInitialized
        /\ nplanned' = nplanned
        /\ UNCHANGED engine_vars

InitializedOnlyAfterInitialize ==
    initialized => lifecycle = [call |-> "initialize", returned |-> TRUE]

C30_InitializedGate ==
    /\ [][RefusedWhenNotInitialized]_vars
    /\ []InitializedOnlyAfterInitialize

====
